---- MODULE Spec2Model ----
(***************************************************************************)
(* Model of the aisubs translation service (vit3k/aisubs):                 *)
(*   - the batch translation engine, Translator.TranslateSubtitles         *)
(*     (src/unnamed/part_005), under the specification SpecEngine;         *)
(*   - the job store and the job pipeline, JobManager.ProcessJob           *)
(*     (src/src/main.go), under the specification SpecJob;                 *)
(*   - the job store under the calls of its clients (SpecStore), handleJob *)
(*     beside a store operation (SpecReader) and GetJobManager (SpecOnce); *)
(*   - deriveOutputPath (src/unnamed/part_005) applied to the paths of the *)
(*     subtitle files, under the specification SpecPath;                   *)
(*   - the semaphores of several TranslateSubtitles calls that run at the  *)
(*     same time, one per job, under the specification SpecPool.           *)
(***************************************************************************)
EXTENDS Integers, Sequences, FiniteSets, TLC

(***************************************************************************)
(* Bounds of the model.                                                    *)
(***************************************************************************)
MaxEntries == 3
MaxBatchSize == 2
MaxConcurrency == 2
MaxTracks == 2
MaxStoreOps == 4
MaxCallers == 3
MaxTokens == 4
MaxTranslating == 2

VARIABLES
    \* ---- Translator.TranslateSubtitles (one call) ----
    items,                  \* subs.Items: the entries, rewritten in place
    orig,                   \* the entries as they were when the call began
    provider,               \* how the provider answers during the call
    batchSize,              \* t.config.BatchSize
    concurrencyLimit,       \* t.config.ConcurrencyLimit
    i,                      \* loop variable of the launching loop
    lpc,                    \* position of the calling goroutine
    semaphore,              \* number of permits in the semaphore channel
    wg,                     \* counter of the sync.WaitGroup
    task,                   \* position of each batch goroutine
    resp,                   \* what translateBatch returned for each batch
    translationResultsChan, \* buffered results channel (its queue)
    resultsClosed,          \* whether the results channel was closed
    closer,                 \* position of the wg.Wait/close goroutine
    allTranslations,        \* results collected so far, in arrival order
    calls,                  \* number of translateBatch calls per batch
    \* ---- JobManager and one ProcessJob invocation ----
    jobs,                   \* jm.jobs: id -> Job
    pid,                    \* the id ProcessJob was invoked with (0: not yet)
    mpc,                    \* position of the ProcessJob goroutine
    fileType,               \* fileType returned by DetectFileType
    langCode,               \* langCode passed to ExtractSubtitleTrack
    extractedPath,          \* extractedPath
    outputPath,             \* outputPath
    terr,                   \* err returned by TranslateSubtitleFile
    total,                  \* number of batches of the translation
    completed,              \* batches finished so far
    failedBatches,          \* batches whose provider call failed
    progressClosed,         \* progressChan was closed
    cpc,                    \* position of the progress consumer goroutine
    cval,                   \* value the consumer received and has yet to store
    tpClosed,               \* translationProgressChan was closed
    rpc,                    \* position of the rescaling goroutine
    rval,                   \* value the rescaling goroutine received
    panicked,               \* a goroutine panicked (the process is gone)
    history,                \* the statuses the job of pid has had, in order
    trackCount,             \* len(tracks) after ListSubtitleTracks (-1: none)
    trace,                  \* the collaborators ProcessJob invoked and its
                            \* SetJobError/SetJobResult calls, in order
    response,               \* what handleTranslate answered to its client
    files,                  \* the files ProcessJob has written to the disk
    \* ---- the clients of the job store ----
    clock,                  \* time.Now(): the number of readings so far
    last,                   \* the last call of a client on the store and
                            \* what it returned
    \* ---- a store operation statement by statement, and handleJob ----
    wpc,                    \* position of the goroutine inside a store operation
    wq,                     \* the assignments the operation has yet to make
    committed,              \* the values the job had between operations
    rdpc,                   \* handleJob: number of the next field to encode
    snap,                   \* handleJob: the fields encoded so far
    \* ---- GetJobManager and the handlers that call it ----
    jobManager,             \* the global jobManager (0: nil)
    onceDone,               \* jobManagerOnce: its done flag
    onceM,                  \* jobManagerOnce: the holder of its mutex (0: free)
    instances,              \* the job managers constructed: their jobs maps
    gpc,                    \* position of each handler goroutine
    got,                    \* what GetJobManager returned to it (-1: not yet)
    created,                \* the jobs the handlers created, with the manager
    \* ---- one call of deriveOutputPath ----
    givenPath,              \* inputPath of the call
    derived,                \* the string the call returned
    ppc,                    \* position of the call
    \* ---- several TranslateSubtitles calls at the same time ----
    permits,                \* number of permits in each semaphore channel
    toLaunch,               \* batches each call has yet to launch
    inFlight,               \* batch goroutines of each call that hold a permit
    \* ---- the media cache and RunBackgroundSync ----
    videoRows,              \* rows of the table videos
    subtitleRows,           \* rows of the table subtitles
    modTime,                \* modification time of each video file on disk
    timeNow,                \* time.Now(), in half seconds
    syncs,                  \* number of syncs that ran
    current,                \* current: what GetCachedMediaFiles returned
    dirMap,                 \* ModTime of each file as the walk read it
    mediaFiles,             \* mediaFiles: what FindMediaFiles returned
    spc                     \* position of the sync goroutine

engineVars == <<items, orig, provider, batchSize, concurrencyLimit, i, lpc,
                semaphore, wg, task, resp, translationResultsChan, resultsClosed,
                closer, allTranslations, calls>>

jobVars == <<jobs, pid, mpc, fileType, langCode, extractedPath, outputPath, terr,
             total, completed, failedBatches, progressClosed, cpc, cval,
             tpClosed, rpc, rval, panicked, history, trackCount, trace,
             response, files>>

readerVars == <<wpc, wq, committed, rdpc, snap>>

onceVars == <<jobManager, onceDone, onceM, instances, gpc, got, created>>

pathVars == <<givenPath, derived, ppc>>

poolVars == <<permits, toLaunch, inFlight>>

syncVars == <<videoRows, subtitleRows, modTime, timeNow, syncs, current, dirMap, mediaFiles,
              spc>>

clientVars == <<clock, last, readerVars, onceVars, pathVars, poolVars, syncVars>>

vars == <<engineVars, jobVars, clientVars>>

(***************************************************************************)
(* Subtitle entries.  An entry is [Index, Lines]; Lines is a sequence of   *)
(* lines, a line a sequence of run texts.  The text of run j of line l of  *)
(* the k-th entry of the file is <<"en", k, l, j>>.                        *)
(***************************************************************************)
Min(a, b) == IF a < b THEN a ELSE b

\* Shape of the k-th entry: the number of runs of each of its lines.
ShapeOf(k) == IF k % 2 = 1 THEN <<2, 1>> ELSE <<1>>

\* Index of the k-th entry as read from the file.  "distinct": 1, 2, 3, ...
\* "sparse": 10, 20, 30, ...  "repeat": 1, 2, 1, 2, ... (an index is not
\* required to be unique by the subtitle library or by the code).
IndexPatterns == {"distinct", "sparse", "repeat"}

IndexOf(pattern, k) ==
    CASE pattern = "distinct" -> k
      [] pattern = "sparse"   -> 10 * k
      [] pattern = "repeat"   -> ((k - 1) % 2) + 1

SourceEntry(pattern, k) ==
    [Index |-> IndexOf(pattern, k),
     Lines |-> [l \in 1..Len(ShapeOf(k)) |->
                  [j \in 1..ShapeOf(k)[l] |-> <<"en", k, l, j>>]]]

SourceItems(pattern, n) == [k \in 1..n |-> SourceEntry(pattern, k)]

(***************************************************************************)
(* translateBatch: the provider call.  It returns an error, or the list of *)
(* Subtitle values decoded from the provider's answer.                     *)
(***************************************************************************)
\* The provider's translation of one run text.
Tr(text) == <<"pl", text[2], text[3], text[4]>>

\* The request built from a batch: index and nested lines/runs of each entry.
ToSubtitles(batch) ==
    [k \in 1..Len(batch) |-> [Index |-> batch[k].Index, Lines |-> batch[k].Lines]]

\* A provider answer that translates every run of every entry of the request.
Faithful(subtitles) ==
    [k \in 1..Len(subtitles) |->
        [Index |-> subtitles[k].Index,
         Lines |-> [l \in 1..Len(subtitles[k].Lines) |->
                      [j \in 1..Len(subtitles[k].Lines[l]) |->
                          Tr(subtitles[k].Lines[l][j])]]]]

\* The provider decides what its answer holds: the code decodes whatever JSON
\* comes back.  An answer of another shape than the request: one line of one
\* run for an entry of several lines, two lines (the first of two runs) for
\* an entry of one line.
Reshaped(subtitles) ==
    [k \in 1..Len(subtitles) |->
        LET shape == IF Len(subtitles[k].Lines) > 1 THEN <<1>> ELSE <<2, 1>>
        IN  [Index |-> subtitles[k].Index,
             Lines |-> [l \in 1..Len(shape) |->
                          [j \in 1..shape[l] |->
                              <<"pl", subtitles[k].Lines[1][1][2], l, j>>]]]]

\* An answer whose first entry carries an index that no entry of the file has.
Stray(subtitles) ==
    [k \in 1..Len(subtitles) |->
        IF k = 1 THEN [Faithful(subtitles)[k] EXCEPT !.Index = @ + 100]
        ELSE Faithful(subtitles)[k]]

\* A result (translated, err) of translateBatch.
Failed == [err |-> TRUE, translated |-> <<>>]

Ok(subtitles) == [err |-> FALSE, translated |-> subtitles]

\* The outcomes of translateBatch for a batch: an error (the request failed
\* or the answer could not be decoded), or the decoded answer.
Providers == {"faithful", "reshaping", "straying"}

Answer(subtitles) ==
    CASE provider = "faithful"  -> Faithful(subtitles)
      [] provider = "reshaping" -> Reshaped(subtitles)
      [] provider = "straying"  -> Stray(subtitles)

translateBatch(batch) == {Failed, Ok(Answer(ToSubtitles(batch)))}

(***************************************************************************)
(* Batching.                                                               *)
(***************************************************************************)
BatchCountRoundedDown(n, size) == n \div size

\* int(math.Ceil(float64(len) / float64(batchSize)))
BatchCountOf(n, size) == (n + size - 1) \div size

batchCount == BatchCountOf(Len(items), batchSize)

\* subs.Items[start:end] of batch b (b counts from 0)
BatchOf(its, size, b) ==
    SubSeq(its, b * size + 1, Min(b * size + size, Len(its)))

Batches == 0..(batchCount - 1)

\* make(chan []Subtitle, batchCount+1): the capacity of the results channel
ResultsUnbuffered(count) == 0

ResultsCapacity(count) == count + 1

\* if err != nil { ...; return }: the deferred calls run next, no second call
RetryAfterError == "running"

AfterProviderError == "release"

(***************************************************************************)
(* The semaphore: a channel of capacity concurrencyLimit.                  *)
(***************************************************************************)
\* The launching loop's send on the semaphore blocks while the buffer is full.
SemaphoreCanSendNoLimit(count, limit) == TRUE

SemaphoreCanSend(count, limit) == count < limit

(***************************************************************************)
(* sort.Slice by Index, then the merge of the translations into the items. *)
(***************************************************************************)
\* Insertion of x into a sequence sorted by Index: sort.Slice sorts slices of
\* at most 12 elements by insertion, moving x left while it is less.
RECURSIVE Insert(_, _)
Insert(s, x) ==
    IF s = <<>> THEN <<x>>
    ELSE IF x.Index < s[Len(s)].Index
         THEN Append(Insert(SubSeq(s, 1, Len(s) - 1), x), s[Len(s)])
         ELSE Append(s, x)

RECURSIVE SortByIndex(_)
SortByIndex(s) ==
    IF s = <<>> THEN <<>>
    ELSE Insert(SortByIndex(SubSeq(s, 1, Len(s) - 1)), s[Len(s)])

\* The first translation in the list whose Index equals index, or <<>>.
RECURSIVE FirstMatch(_, _)
FirstMatch(translations, index) ==
    IF translations = <<>> THEN <<>>
    ELSE IF translations[1].Index = index THEN <<translations[1]>>
         ELSE FirstMatch(Tail(translations), index)

ApplyOneWholesale(sub, translation) == [sub EXCEPT !.Lines = translation.Lines]

ApplyOneSameShapeOnly(sub, translation) ==
    IF /\ Len(translation.Lines) = Len(sub.Lines)
       /\ \A l \in 1..Len(sub.Lines) : Len(translation.Lines[l]) = Len(sub.Lines[l])
    THEN [sub EXCEPT !.Lines = translation.Lines]
    ELSE sub

\* Overwrite of the run texts of one entry by position.
ApplyOne(sub, translation) ==
    [sub EXCEPT !.Lines =
        [l \in 1..Len(sub.Lines) |->
            IF l <= Len(translation.Lines)
            THEN [j \in 1..Len(sub.Lines[l]) |->
                    IF j <= Len(translation.Lines[l])
                    THEN translation.Lines[l][j]
                    ELSE sub.Lines[l][j]]
            ELSE sub.Lines[l]]]

ApplyTranslations(its, translations) ==
    [k \in 1..Len(its) |->
        LET m == FirstMatch(translations, its[k].Index)
        IN  IF m = <<>> THEN its[k] ELSE ApplyOne(its[k], m[1])]

(***************************************************************************)
(* TranslateSubtitles: the state after construction and the steps.         *)
(***************************************************************************)
InitTranslate ==
    /\ \E n \in 0..MaxEntries, pattern \in IndexPatterns :
          /\ items = SourceItems(pattern, n)
          /\ orig = SourceItems(pattern, n)
    /\ provider \in Providers
    /\ batchSize \in 1..MaxBatchSize
    /\ concurrencyLimit \in 1..MaxConcurrency
    /\ i = 0
    /\ lpc = "loop"
    /\ semaphore = 0
    /\ wg = 0
    /\ task = [b \in 0..(BatchCountOf(Len(items), batchSize) - 1) |-> "idle"]
    /\ resp = [b \in 0..(BatchCountOf(Len(items), batchSize) - 1) |-> Ok(<<>>)]
    /\ translationResultsChan = <<>>
    /\ resultsClosed = FALSE
    /\ closer = "idle"
    /\ allTranslations = <<>>
    /\ calls = [b \in 0..(BatchCountOf(Len(items), batchSize) - 1) |-> 0]

\* semaphore <- struct{}{}
Acquire ==
    /\ lpc = "loop"
    /\ i < batchCount
    /\ SemaphoreCanSend(semaphore, concurrencyLimit)
    /\ semaphore' = semaphore + 1
    /\ lpc' = "spawn"
    /\ UNCHANGED <<items, orig, provider, batchSize, concurrencyLimit, i, wg, task, resp,
                   translationResultsChan, resultsClosed, closer,
                   allTranslations, calls>>
    /\ UNCHANGED <<jobVars, clientVars>>

\* wg.Add(1); go func(batch) {...}(batch); i++
Spawn ==
    /\ lpc = "spawn"
    /\ wg' = wg + 1
    /\ task' = [task EXCEPT ![i] = "running"]
    /\ i' = i + 1
    /\ lpc' = "loop"
    /\ UNCHANGED <<items, orig, provider, batchSize, concurrencyLimit, semaphore, resp,
                   translationResultsChan, resultsClosed, closer,
                   allTranslations, calls>>
    /\ UNCHANGED <<jobVars, clientVars>>

\* the loop ends; go func() { wg.Wait(); close(translationResultsChan) }()
StartCloser ==
    /\ lpc = "loop"
    /\ i >= batchCount
    /\ lpc' = "collect"
    /\ closer' = "wait"
    /\ UNCHANGED <<items, orig, provider, batchSize, concurrencyLimit, i, semaphore, wg,
                   task, resp, translationResultsChan, resultsClosed,
                   allTranslations, calls>>
    /\ UNCHANGED <<jobVars, clientVars>>

\* translated, err := t.translateBatch(batch)
CallProvider(b) ==
    /\ task[b] = "running"
    /\ \E r \in translateBatch(BatchOf(items, batchSize, b)) :
          /\ resp' = [resp EXCEPT ![b] = r]
          /\ task' = [task EXCEPT ![b] = IF r.err THEN AfterProviderError ELSE "send"]
    /\ calls' = [calls EXCEPT ![b] = @ + 1]
    /\ UNCHANGED <<items, orig, provider, batchSize, concurrencyLimit, i, lpc, semaphore,
                   wg, translationResultsChan, resultsClosed, closer,
                   allTranslations>>
    /\ UNCHANGED <<jobVars, clientVars>>

\* translationResultsChan <- translated
SendResult(b) ==
    /\ task[b] = "send"
    /\ ~resultsClosed
    /\ Len(translationResultsChan) < ResultsCapacity(batchCount)
    /\ translationResultsChan' = Append(translationResultsChan, resp[b].translated)
    /\ task' = [task EXCEPT ![b] = "release"]
    /\ UNCHANGED <<items, orig, provider, batchSize, concurrencyLimit, i, lpc, semaphore,
                   wg, resp, resultsClosed, closer, allTranslations, calls>>
    /\ UNCHANGED <<jobVars, clientVars>>

\* defer func() { <-semaphore }()
Release(b) ==
    /\ task[b] = "release"
    /\ semaphore > 0
    /\ semaphore' = semaphore - 1
    /\ task' = [task EXCEPT ![b] = "wgdone"]
    /\ UNCHANGED <<items, orig, provider, batchSize, concurrencyLimit, i, lpc, wg, resp,
                   translationResultsChan, resultsClosed, closer,
                   allTranslations, calls>>
    /\ UNCHANGED <<jobVars, clientVars>>

\* defer wg.Done()
WgDone(b) ==
    /\ task[b] = "wgdone"
    /\ wg' = wg - 1
    /\ task' = [task EXCEPT ![b] = "done"]
    /\ UNCHANGED <<items, orig, provider, batchSize, concurrencyLimit, i, lpc, semaphore,
                   resp, translationResultsChan, resultsClosed, closer,
                   allTranslations, calls>>
    /\ UNCHANGED <<jobVars, clientVars>>

\* wg.Wait() returns; close(translationResultsChan)
CloseResults ==
    /\ closer = "wait"
    /\ wg = 0
    /\ resultsClosed' = TRUE
    /\ closer' = "done"
    /\ UNCHANGED <<items, orig, provider, batchSize, concurrencyLimit, i, lpc, semaphore,
                   wg, task, resp, translationResultsChan, allTranslations,
                   calls>>
    /\ UNCHANGED <<jobVars, clientVars>>

\* for translations := range translationResultsChan { append(...) }
Collect ==
    /\ lpc = "collect"
    /\ translationResultsChan # <<>>
    /\ allTranslations' = allTranslations \o Head(translationResultsChan)
    /\ translationResultsChan' = Tail(translationResultsChan)
    /\ UNCHANGED <<items, orig, provider, batchSize, concurrencyLimit, i, lpc, semaphore,
                   wg, task, resp, resultsClosed, closer, calls>>
    /\ UNCHANGED <<jobVars, clientVars>>

\* the range loop ends; sort.Slice; the merge loop; return nil
SortAndApply ==
    /\ lpc = "collect"
    /\ translationResultsChan = <<>>
    /\ resultsClosed
    /\ items' = ApplyTranslations(items, SortByIndex(allTranslations))
    /\ lpc' = "done"
    /\ UNCHANGED <<orig, provider, batchSize, concurrencyLimit, i, semaphore, wg, task,
                   resp, translationResultsChan, resultsClosed, closer,
                   allTranslations, calls>>
    /\ UNCHANGED <<jobVars, clientVars>>

NextEngine ==
    \/ Acquire
    \/ Spawn
    \/ StartCloser
    \/ \E b \in Batches : CallProvider(b)
    \/ \E b \in Batches : SendResult(b)
    \/ \E b \in Batches : Release(b)
    \/ \E b \in Batches : WgDone(b)
    \/ CloseResults
    \/ Collect
    \/ SortAndApply


(***************************************************************************)
(* Strings are sequences of one-character strings.                         *)
(* deriveOutputPath and its helpers.                                       *)
(***************************************************************************)
smaller(a, b) == IF a < b THEN a ELSE b

max(a, b) == IF a > b THEN a ELSE b

\* index (from 0) of the last occurrence of substr in s, or -1
lastIndexOf(s, substr) ==
    LET found == {k \in 0..(Len(s) - Len(substr)) :
                     SubSeq(s, k + 1, k + Len(substr)) = substr}
    IN  IF found = {} THEN -1 ELSE CHOOSE k \in found : \A m \in found : m <= k

HasSuffix(s, suffix) ==
    /\ Len(s) >= Len(suffix)
    /\ SubSeq(s, Len(s) - Len(suffix) + 1, Len(s)) = suffix

hasFirstSuffix(s, suffix1, suffix2) == HasSuffix(s, suffix1)

hasAnySuffix(s, suffix1, suffix2) == HasSuffix(s, suffix1) \/ HasSuffix(s, suffix2)

SourceTag == <<".", "e", "n">>

DotPl == <<".", "p", "l">>
UnderPl == <<"_", "p", "l">>
DotEngHi == <<".", "e", "n", "g", ".", "h", "i">>
DotEnHi == <<".", "e", "n", ".", "h", "i">>
UnderEngHi == <<"_", "e", "n", "g", ".", "h", "i">>
UnderEnHi == <<"_", "e", "n", ".", "h", "i">>
DotEng == <<".", "e", "n", "g">>
DotEn == <<".", "e", "n">>
UnderEng == <<"_", "e", "n", "g">>
UnderEn == <<"_", "e", "n">>

deriveOutputPath(inputPath) ==
    LET lastDotIndex == lastIndexOf(inputPath, <<".">>)
        basePath == SubSeq(inputPath, 1, lastDotIndex)
        extension == SubSeq(inputPath, lastDotIndex + 1, Len(inputPath))
        Replace(a, b, with) ==
            SubSeq(basePath, 1, max(lastIndexOf(basePath, a), lastIndexOf(basePath, b)))
                \o with \o extension
    IN  IF lastDotIndex = -1 THEN inputPath \o DotPl
        ELSE IF hasAnySuffix(basePath, DotEngHi, DotEnHi)
             THEN Replace(DotEngHi, DotEnHi, DotPl)
        ELSE IF hasAnySuffix(basePath, UnderEngHi, UnderEnHi)
             THEN Replace(UnderEngHi, UnderEnHi, UnderPl)
        ELSE IF hasAnySuffix(basePath, DotEng, DotEn)
             THEN Replace(DotEng, DotEn, DotPl)
        ELSE IF hasAnySuffix(basePath, UnderEng, UnderEn)
             THEN Replace(UnderEng, UnderEn, UnderPl)
        ELSE basePath \o DotPl \o extension

(***************************************************************************)
(* File types and the external collaborators of the pipeline.              *)
(***************************************************************************)
\* filepath.Ext of a path without directory part
Ext(path) ==
    LET d == lastIndexOf(path, <<".">>)
    IN  IF d = -1 THEN <<>> ELSE SubSeq(path, d + 1, Len(path))

IsVideoOrSrt(ft) == ft \in {"MKV", "MP4", "AVI", "SRT"}

IsVideo(ft) == ft \in {"MKV", "MP4", "AVI"}

IsSubtitleOrUnknown(ft) == ft \in {"SRT", "SSA", "ASS", "Unknown"}

IsSubtitle(ft) == ft \in {"SRT", "SSA", "ASS"}

\* The outcomes (fileType, err) of DetectFileType: the extension decides when
\* it is a known one, the content of the file (or an I/O error) otherwise.
DetectFileType(filePath) ==
    LET ext == Ext(filePath)
    IN  IF ext = <<".", "m", "k", "v">> THEN {[type |-> "MKV", err |-> FALSE]}
        ELSE IF ext = <<".", "m", "p", "4">> THEN {[type |-> "MP4", err |-> FALSE]}
        ELSE IF ext = <<".", "a", "v", "i">> THEN {[type |-> "AVI", err |-> FALSE]}
        ELSE IF ext = <<".", "s", "r", "t">> THEN {[type |-> "SRT", err |-> FALSE]}
        ELSE IF ext = <<".", "s", "s", "a">> THEN {[type |-> "SSA", err |-> FALSE]}
        ELSE IF ext = <<".", "a", "s", "s">> THEN {[type |-> "ASS", err |-> FALSE]}
        ELSE {[type |-> "Unknown", err |-> TRUE]}
             \cup {[type |-> t, err |-> FALSE] :
                      t \in {"MKV", "MP4", "SRT", "SSA", "ASS", "Unknown"}}

\* Path of the file ExtractSubtitleTrack writes: the media path with its
\* extension replaced by .<langCode>.srt, in the directory of the media file.
ExtractedPathOf(mediaPath, lang) ==
    SubSeq(mediaPath, 1, Len(mediaPath) - Len(Ext(mediaPath)))
        \o <<".">> \o lang \o <<".", "s", "r", "t">>

\* Track.Language of the chosen track ("" when the container names none).
TrackLanguages == {<<>>, <<"e", "n", "g">>}

\* The paths and track indexes of the translate requests.
Paths == {<<"m", ".", "m", "k", "v">>,
          <<"s", ".", "e", "n", ".", "s", "r", "t">>,
          <<"x">>}

TrackIndexes == (-1)..MaxTracks

(***************************************************************************)
(* Progress values are float64 in the code; here exact fractions <<n, d>>  *)
(* in lowest terms.                                                        *)
(***************************************************************************)
RECURSIVE GCD(_, _)
GCD(a, b) == IF b = 0 THEN a ELSE GCD(b, a % b)

Frac(n, d) == <<n \div GCD(n, d), d \div GCD(n, d)>>

Pct(n) == <<n, 1>>

Leq(p, q) == p[1] * q[2] <= q[1] * p[2]

\* scaledProgress := 20.0 + (progress * 0.75)
ScaledNoRescale(p) == p

Scaled(p) == Frac(80 * p[2] + 3 * p[1], 4 * p[2])

\* completedBatches / totalBatches * 100, reported by the engine
EngineProgress(done, all) == Frac(100 * done, all)

(***************************************************************************)
(* The job store: JobManager.  Every operation runs under jm.mutex and is  *)
(* one step.  An operation on an unknown id returns an error and changes   *)
(* nothing.                                                                *)
(***************************************************************************)
NewJobNoCreatedAt(id, path, trackIndex, now) ==
    [ID |-> id, Status |-> "pending", Progress |-> Pct(0), Path |-> path,
     TrackIndex |-> trackIndex, OutputPath |-> <<>>, Error |-> "",
     CreatedAt |-> 0, UpdatedAt |-> now]

NewJob(id, path, trackIndex, now) ==
    [ID |-> id, Status |-> "pending", Progress |-> Pct(0), Path |-> path,
     TrackIndex |-> trackIndex, OutputPath |-> <<>>, Error |-> "",
     CreatedAt |-> now, UpdatedAt |-> now]

\* generateUUID: an id no job of the store has
FreshId(js) == Cardinality(DOMAIN js) + 1

Put(js, id, job) == [k \in DOMAIN js \cup {id} |-> IF k = id THEN job ELSE js[k]]

CreateJob(js, path, trackIndex, now) ==
    Put(js, FreshId(js), NewJob(FreshId(js), path, trackIndex, now))

GetJobOk(js, id) == id \in DOMAIN js

\* The job GetJob returns (<<>> for nil).
GetJobRet(js, id) == IF id \in DOMAIN js THEN <<js[id]>> ELSE <<>>

\* if !exists { return fmt.Errorf("job not found: %s", id) }
JobNotFound(js, id) == id \notin DOMAIN js

UpdateJobStatus(js, id, status, now) ==
    IF id \in DOMAIN js
    THEN [js EXCEPT ![id].Status = status, ![id].UpdatedAt = now]
    ELSE js

UpdateJobProgressUpsert(js, id, progress, now) ==
    IF id \in DOMAIN js
    THEN [js EXCEPT ![id].Progress = progress, ![id].UpdatedAt = now]
    ELSE Put(js, id, [NewJob(id, <<>>, 0, now) EXCEPT !.Progress = progress])

UpdateJobProgress(js, id, progress, now) ==
    IF id \in DOMAIN js
    THEN [js EXCEPT ![id].Progress = progress, ![id].UpdatedAt = now]
    ELSE js

SetJobResultNoPath(js, id, path, now) ==
    IF id \in DOMAIN js
    THEN [js EXCEPT ![id].Status = "completed", ![id].Progress = Pct(100),
                    ![id].UpdatedAt = now]
    ELSE js

SetJobResult(js, id, path, now) ==
    IF id \in DOMAIN js
    THEN [js EXCEPT ![id].Status = "completed", ![id].Progress = Pct(100),
                    ![id].OutputPath = path, ![id].UpdatedAt = now]
    ELSE js

SetJobErrorEvicts(js, id, msg, now) == [k \in DOMAIN js \ {id} |-> js[k]]

SetJobErrorNoStatus(js, id, msg, now) ==
    IF id \in DOMAIN js
    THEN [js EXCEPT ![id].Error = msg, ![id].UpdatedAt = now]
    ELSE js

SetJobError(js, id, msg, now) ==
    IF id \in DOMAIN js
    THEN [js EXCEPT ![id].Status = "failed", ![id].Error = msg,
                    ![id].UpdatedAt = now]
    ELSE js

(***************************************************************************)
(* ProcessJob: the pipeline goroutine, the progress consumer goroutine and *)
(* the rescaling goroutine.                                                *)
(***************************************************************************)
pipeLocals == <<fileType, trackCount, langCode, extractedPath, outputPath, terr>>
engineLocals == <<total, completed, failedBatches>>
consumerVars == <<cpc, cval>>
rescalerVars == <<rpc, rval>>
chanFlags == <<progressClosed, tpClosed>>

\* The statuses of the job of pid, in order, with the new status st.
Observe(h, st) == IF h # <<>> /\ h[Len(h)] = st THEN h ELSE Append(h, st)

\* What TranslateSubtitles returns after failed batches: always nil.
TranslateSubtitlesFailsOnBatchError(failed) == IF failed > 0 THEN "translate" ELSE ""

TranslateSubtitlesErr(failed) == ""

\* Where the pipeline goes after it recorded an error before the translation:
\* close(progressChan); return
ErrorExitFallsThrough == "setTranslating"

ErrorExit == "closeProgress"

\* The numbers of batches a subtitle file can have.
BatchCounts == {BatchCountOf(n, b) : n \in 0..MaxEntries, b \in 1..MaxBatchSize}

\* No answer was written to the client of handleTranslate.
NoResponse == [message |-> "", job_id |-> 0]

InitJob ==
    /\ jobs = <<>>
    /\ pid = 0
    /\ mpc = "idle"
    /\ fileType = "Unknown"
    /\ langCode = <<>>
    /\ extractedPath = <<>>
    /\ outputPath = <<>>
    /\ terr = "unset"
    /\ total = 0
    /\ completed = 0
    /\ failedBatches = 0
    /\ progressClosed = FALSE
    /\ cpc = "idle"
    /\ cval = Pct(0)
    /\ tpClosed = FALSE
    /\ rpc = "idle"
    /\ rval = Pct(0)
    /\ panicked = FALSE
    /\ history = <<>>
    /\ trackCount = -1
    /\ trace = <<>>
    /\ response = NoResponse
    /\ files = {}

\* What a request is made of: the body as io.ReadAll and json.Unmarshal find
\* it, the path and the track index it carries, and what os.Stat says of
\* the path.
Bodies == {"unreadable", "unparsable", "parsed"}

Stats == {"missing", "error", "ok"}

RequestPaths == Paths \cup {<<>>}

RejectionNoTrackCheck(body, path, stat, trackIndex) ==
    IF body = "unreadable" THEN "Request body error"
    ELSE IF body = "unparsable" THEN "Invalid JSON"
    ELSE IF path = <<>> THEN "Missing field"
    ELSE IF stat = "missing" THEN "File not found"
    ELSE IF stat = "error" THEN "File access error"
    ELSE ""

\* The checks of handleTranslate, in order: the error it answers, "" when the
\* request passes them all.
Rejection(body, path, stat, trackIndex) ==
    IF body = "unreadable" THEN "Request body error"
    ELSE IF body = "unparsable" THEN "Invalid JSON"
    ELSE IF path = <<>> THEN "Missing field"
    ELSE IF stat = "missing" THEN "File not found"
    ELSE IF stat = "error" THEN "File access error"
    ELSE IF trackIndex < 0 THEN "Invalid parameter"
    ELSE ""

\* handleTranslate.  A request that fails a check is answered with the error
\* and nothing else happens.  For a request that passes them all:
\* job := jm.CreateJob(path, trackIndex); jm.ProcessJob(job.ID), which starts
\* the pipeline goroutine and returns.
handleTranslate(body, path, stat, trackIndex) ==
    /\ ~panicked
    /\ mpc = "idle"
    /\ response = NoResponse
    /\ IF Rejection(body, path, stat, trackIndex) # ""
       THEN /\ response' = [message |-> Rejection(body, path, stat, trackIndex),
                            job_id |-> 0]
            /\ UNCHANGED <<jobs, pid, mpc, history>>
       ELSE /\ jobs' = CreateJob(jobs, path, trackIndex, clock)
            /\ pid' = FreshId(jobs)
            /\ mpc' = "getJob"
            /\ history' = <<jobs'[pid'].Status>>
            /\ UNCHANGED response
    /\ UNCHANGED <<pipeLocals, engineLocals, consumerVars, rescalerVars,
                   chanFlags, panicked, trace>>
    /\ UNCHANGED <<engineVars, files, clientVars>>

\* ProcessJob is one go statement: it returns to handleTranslate whatever the
\* position pc of the pipeline goroutine it started.
ProcessJobWaits(pc) == pc = "done"

ProcessJobReturned(pc) == TRUE

\* handleTranslate, after jm.ProcessJob(job.ID) returned:
\* json.NewEncoder(w).Encode(map[string]string{"message": ..., "job_id": job.ID})
Respond ==
    /\ ~panicked
    /\ pid # 0
    /\ response = NoResponse
    /\ ProcessJobReturned(mpc)
    /\ response' = [message |-> "Translation job created", job_id |-> pid]
    /\ UNCHANGED <<jobs, pid, mpc, pipeLocals, engineLocals, consumerVars,
                   rescalerVars, chanFlags, panicked, history, trace>>
    /\ UNCHANGED <<engineVars, files, clientVars>>

\* job, err := jm.GetJob(id)
GetJob ==
    /\ ~panicked
    /\ mpc = "getJob"
    /\ mpc' = IF GetJobOk(jobs, pid) THEN "setProcessing" ELSE "done"
    /\ UNCHANGED <<jobs, pid, pipeLocals, engineLocals, consumerVars, rescalerVars,
                   chanFlags, panicked, history, trace>>
    /\ UNCHANGED <<engineVars, response, files, clientVars>>

\* jm.UpdateJobStatus(id, JobStatusProcessing)
SetProcessing ==
    /\ ~panicked
    /\ mpc = "setProcessing"
    /\ jobs' = UpdateJobStatus(jobs, pid, "processing", clock)
    /\ history' = Observe(history, jobs'[pid].Status)
    /\ mpc' = "initProgress"
    /\ UNCHANGED <<pid, pipeLocals, engineLocals, consumerVars, rescalerVars,
                   chanFlags, panicked, trace>>
    /\ UNCHANGED <<engineVars, response, files, clientVars>>

InitialProgressOne == Pct(1)

\* the progress ProcessJob stores before it starts the consumer: 0.0
InitialProgress == Pct(0)

\* jm.UpdateJobProgress(id, 0.0); progressChan := make(chan float64);
\* go func() { for progress := range progressChan {...} }()
InitProgress ==
    /\ ~panicked
    /\ mpc = "initProgress"
    /\ jobs' = UpdateJobProgress(jobs, pid, InitialProgress, clock)
    /\ cpc' = "recv"
    /\ mpc' = "detect"
    /\ UNCHANGED <<pid, pipeLocals, engineLocals, cval, rescalerVars, chanFlags,
                   panicked, history, trace>>
    /\ UNCHANGED <<engineVars, response, files, clientVars>>

\* fileType, err := DetectFileType(job.Path); on error SetJobError
Detect ==
    /\ ~panicked
    /\ mpc = "detect"
    /\ \E r \in DetectFileType(jobs[pid].Path) :
          IF r.err
          THEN /\ jobs' = SetJobError(jobs, pid, "error detecting file type", clock)
               /\ trace' = trace \o <<"DetectFileType", "SetJobError">>
               /\ mpc' = ErrorExit
               /\ UNCHANGED fileType
          ELSE /\ fileType' = r.type
               /\ trace' = trace \o <<"DetectFileType">>
               /\ mpc' = "send1"
               /\ UNCHANGED jobs
    /\ history' = Observe(history, jobs'[pid].Status)
    /\ UNCHANGED <<pid, trackCount, langCode, extractedPath, outputPath, terr, engineLocals,
                   consumerVars, rescalerVars, chanFlags, panicked>>
    /\ UNCHANGED <<engineVars, response, files, clientVars>>

\* The sends of the pipeline goroutine on progressChan, an unbuffered
\* channel: a send completes when the consumer receives the value.
SendPoints == {"send1", "send2", "send20", "send99", "send100"}

SendValue(pc) ==
    CASE pc = "send1"   -> Pct(1)
      [] pc = "send2"   -> Pct(2)
      [] pc = "send20"  -> Pct(20)
      [] pc = "send99"  -> Pct(99)
      [] pc = "send100" -> Pct(100)

AfterSend(pc) ==
    CASE pc = "send1"   -> "branch"
      [] pc = "send2"   -> "extract"
      [] pc = "send20"  -> "setTranslating"
      [] pc = "send99"  -> "setResult"
      [] pc = "send100" -> "closeProgress"

\* progressChan <- v   (pipeline goroutine)
SendProgress ==
    /\ ~panicked
    /\ mpc \in SendPoints
    /\ cpc = "recv"
    /\ ~progressClosed
    /\ cval' = SendValue(mpc)
    /\ cpc' = "apply"
    /\ mpc' = AfterSend(mpc)
    /\ UNCHANGED <<jobs, pid, pipeLocals, engineLocals, rescalerVars, chanFlags,
                   panicked, history, trace>>
    /\ UNCHANGED <<engineVars, response, files, clientVars>>

\* if fileType.IsVideo() {stat; NewFFmpeg; UpdateJobStatus(extracting)}
\* else if fileType.IsSubtitle() {stat; extractedPath = job.Path}
\* else {SetJobError(unsupported file type)}
Branch ==
    /\ ~panicked
    /\ mpc = "branch"
    /\ \/ /\ IsVideo(fileType)
          /\ \E outcome \in {"missing", "ffmpeg", "ok"} :
                /\ jobs' = CASE outcome = "missing" ->
                                  SetJobError(jobs, pid, "video file does not exist", clock)
                             [] outcome = "ffmpeg" ->
                                  SetJobError(jobs, pid, "error initializing FFmpeg", clock)
                             [] outcome = "ok" ->
                                  UpdateJobStatus(jobs, pid, "extracting", clock)
                /\ trace' = IF outcome = "ok" THEN trace
                            ELSE trace \o <<"SetJobError">>
                /\ mpc' = IF outcome = "ok" THEN "listTracks" ELSE ErrorExit
          /\ UNCHANGED extractedPath
       \/ /\ ~IsVideo(fileType)
          /\ IsSubtitle(fileType)
          /\ \E exists \in BOOLEAN :
                IF exists
                THEN /\ extractedPath' = jobs[pid].Path
                     /\ mpc' = "send20"
                     /\ UNCHANGED <<jobs, trace>>
                ELSE /\ jobs' = SetJobError(jobs, pid, "subtitle file does not exist", clock)
                     /\ trace' = trace \o <<"SetJobError">>
                     /\ mpc' = ErrorExit
                     /\ UNCHANGED extractedPath
       \/ /\ ~IsVideo(fileType)
          /\ ~IsSubtitle(fileType)
          /\ jobs' = SetJobError(jobs, pid, "unsupported file type", clock)
          /\ trace' = trace \o <<"SetJobError">>
          /\ mpc' = ErrorExit
          /\ UNCHANGED extractedPath
    /\ history' = Observe(history, jobs'[pid].Status)
    /\ UNCHANGED <<pid, fileType, trackCount, langCode, outputPath, terr, engineLocals,
                   consumerVars, rescalerVars, chanFlags, panicked>>
    /\ UNCHANGED <<engineVars, response, files, clientVars>>

\* if job.TrackIndex < 0 || job.TrackIndex >= len(tracks)
TrackIndexOnlyNegative(trackIndex, n) == trackIndex < 0

TrackIndexOutOfRange(trackIndex, n) == trackIndex < 0 \/ trackIndex >= n

\* tracks, err := ff.ListSubtitleTracks(job.Path); the checks of the track
\* count and of job.TrackIndex; langCode from the chosen track
ListTracks ==
    /\ ~panicked
    /\ mpc = "listTracks"
    /\ \/ /\ jobs' = SetJobError(jobs, pid, "error listing subtitle tracks", clock)
          /\ trace' = trace \o <<"ListSubtitleTracks", "SetJobError">>
          /\ mpc' = ErrorExit
          /\ UNCHANGED <<langCode, trackCount>>
       \/ \E n \in 0..MaxTracks :
             /\ trackCount' = n
             /\ IF n = 0
                THEN /\ jobs' = SetJobError(jobs, pid, "no subtitle tracks found", clock)
                     /\ trace' = trace \o <<"ListSubtitleTracks", "SetJobError">>
                     /\ mpc' = ErrorExit
                     /\ UNCHANGED langCode
                ELSE IF TrackIndexOutOfRange(jobs[pid].TrackIndex, n)
                THEN /\ jobs' = SetJobError(jobs, pid, "invalid track index", clock)
                     /\ trace' = trace \o <<"ListSubtitleTracks", "SetJobError">>
                     /\ mpc' = ErrorExit
                     /\ UNCHANGED langCode
                ELSE /\ \E lang \in TrackLanguages :
                           langCode' = IF lang # <<>> THEN lang ELSE <<"e", "n">>
                     /\ trace' = trace \o <<"ListSubtitleTracks">>
                     /\ mpc' = "send2"
                     /\ UNCHANGED jobs
    /\ history' = Observe(history, jobs'[pid].Status)
    /\ UNCHANGED <<pid, fileType, extractedPath, outputPath, terr, engineLocals,
                   consumerVars, rescalerVars, chanFlags, panicked>>
    /\ UNCHANGED <<engineVars, response, files, clientVars>>

\* extractedPath, err = ff.ExtractSubtitleTrack(...); os.Stat(extractedPath)
Extract ==
    /\ ~panicked
    /\ mpc = "extract"
    /\ \E outcome \in {"error", "missing", "ok"} :
          /\ jobs' = CASE outcome = "error" ->
                            SetJobError(jobs, pid, "error extracting subtitle track", clock)
                       [] outcome = "missing" ->
                            SetJobError(jobs, pid, "extracted subtitle file does not exist", clock)
                       [] outcome = "ok" -> jobs
          /\ extractedPath' = IF outcome = "error" THEN <<>>
                              ELSE ExtractedPathOf(jobs[pid].Path, langCode)
          /\ trace' = IF outcome = "ok" THEN trace \o <<"ExtractSubtitleTrack">>
                      ELSE trace \o <<"ExtractSubtitleTrack", "SetJobError">>
          /\ files' = IF outcome = "ok" THEN files \cup {extractedPath'} ELSE files
          /\ mpc' = IF outcome = "ok" THEN "send20" ELSE ErrorExit
    /\ history' = Observe(history, jobs'[pid].Status)
    /\ UNCHANGED <<pid, fileType, trackCount, langCode, outputPath, terr, engineLocals,
                   consumerVars, rescalerVars, chanFlags, panicked>>
    /\ UNCHANGED <<engineVars, response, clientVars>>

\* jm.UpdateJobStatus(id, JobStatusTranslating);
\* outputPath := deriveOutputPath(extractedPath);
\* translationProgressChan := make(chan float64); go func() {...}();
\* translator.SetProgressChannel(translationProgressChan)
SetTranslating ==
    /\ ~panicked
    /\ mpc = "setTranslating"
    /\ jobs' = UpdateJobStatus(jobs, pid, "translating", clock)
    /\ history' = Observe(history, jobs'[pid].Status)
    /\ outputPath' = deriveOutputPath(extractedPath)
    /\ rpc' = "recv"
    /\ mpc' = "open"
    /\ UNCHANGED <<pid, fileType, trackCount, langCode, extractedPath, terr,
                   engineLocals, consumerVars, rval, chanFlags, panicked, trace>>
    /\ UNCHANGED <<engineVars, response, files, clientVars>>

\* TranslateSubtitleFile: subs, err := astisub.OpenFile(inputPath)
OpenSubtitles ==
    /\ ~panicked
    /\ mpc = "open"
    /\ \/ /\ terr' = "open"
          /\ mpc' = "translateFailed"
          /\ UNCHANGED engineLocals
       \/ \E t \in BatchCounts :
             /\ total' = t
             /\ completed' = 0
             /\ failedBatches' = 0
             /\ mpc' = "engine"
             /\ UNCHANGED terr
    /\ trace' = trace \o <<"TranslateSubtitleFile">>
    /\ UNCHANGED <<jobs, pid, fileType, trackCount, langCode, extractedPath, outputPath,
                   consumerVars, rescalerVars, chanFlags, panicked, history>>
    /\ UNCHANGED <<engineVars, response, files, clientVars>>

\* TranslateSubtitles: one batch task finishes, its provider call having
\* succeeded or failed, and the engine reports completed/total*100 on the
\* translation progress channel (unbuffered: the rescaling goroutine
\* receives the value).
BatchFinished ==
    /\ ~panicked
    /\ mpc = "engine"
    /\ completed < total
    /\ rpc = "recv"
    /\ ~tpClosed
    /\ \E failed \in BOOLEAN :
          failedBatches' = failedBatches + (IF failed THEN 1 ELSE 0)
    /\ completed' = completed + 1
    /\ rval' = EngineProgress(completed + 1, total)
    /\ rpc' = "forward"
    /\ UNCHANGED <<jobs, pid, mpc, pipeLocals, total, consumerVars, chanFlags,
                   panicked, history, trace>>
    /\ UNCHANGED <<engineVars, response, files, clientVars>>

WriteErrorIgnored == "closeTp"

\* err = subs.Write(outputPath); if err != nil { return fmt.Errorf(...) }:
\* TranslateSubtitleFile returns the error and ProcessJob takes its error path
AfterWriteError == "translateFailed"

\* TranslateSubtitleFile: err = t.TranslateSubtitles(subs) returned;
\* err = subs.Write(outputPath); return
WriteOutput ==
    /\ ~panicked
    /\ mpc = "engine"
    /\ completed = total
    /\ IF TranslateSubtitlesErr(failedBatches) # ""
       THEN /\ terr' = TranslateSubtitlesErr(failedBatches)
            /\ mpc' = "translateFailed"
            /\ UNCHANGED <<trace, files>>
       ELSE \E ok \in BOOLEAN :
               /\ terr' = IF ok THEN "" ELSE "write"
               /\ mpc' = IF ok THEN "closeTp" ELSE AfterWriteError
               /\ trace' = trace \o <<"Write">>
               /\ files' = IF ok THEN files \cup {outputPath} ELSE files
    /\ UNCHANGED <<jobs, pid, fileType, trackCount, langCode, extractedPath, outputPath,
                   engineLocals, consumerVars, rescalerVars, chanFlags, panicked,
                   history>>
    /\ UNCHANGED <<engineVars, response, clientVars>>

\* if err != nil { jm.SetJobError(id, ...)
TranslateFailed ==
    /\ ~panicked
    /\ mpc = "translateFailed"
    /\ jobs' = SetJobError(jobs, pid, "error translating subtitles", clock)
    /\ trace' = trace \o <<"SetJobError">>
    /\ history' = Observe(history, jobs'[pid].Status)
    /\ mpc' = "closeTpErr"
    /\ UNCHANGED <<pid, pipeLocals, engineLocals, consumerVars, rescalerVars,
                   chanFlags, panicked>>
    /\ UNCHANGED <<engineVars, response, files, clientVars>>

\* close(translationProgressChan), on the error path and on the success path
CloseTranslationProgress ==
    /\ ~panicked
    /\ mpc \in {"closeTpErr", "closeTp"}
    /\ tpClosed' = TRUE
    /\ mpc' = IF mpc = "closeTp" THEN "send99" ELSE "closeProgress"
    /\ UNCHANGED <<jobs, pid, pipeLocals, engineLocals, consumerVars, rescalerVars,
                   progressClosed, panicked, history, trace>>
    /\ UNCHANGED <<engineVars, response, files, clientVars>>

\* err = jm.SetJobResult(id, outputPath)
SetResult ==
    /\ ~panicked
    /\ mpc = "setResult"
    /\ jobs' = SetJobResult(jobs, pid, outputPath, clock)
    /\ trace' = trace \o <<"SetJobResult">>
    /\ history' = Observe(history, jobs'[pid].Status)
    /\ mpc' = IF GetJobOk(jobs, pid) THEN "send100" ELSE "closeProgress"
    /\ UNCHANGED <<pid, pipeLocals, engineLocals, consumerVars, rescalerVars,
                   chanFlags, panicked>>
    /\ UNCHANGED <<engineVars, response, files, clientVars>>

\* close(progressChan); return
CloseProgress ==
    /\ ~panicked
    /\ mpc = "closeProgress"
    /\ progressClosed' = TRUE
    /\ mpc' = "done"
    /\ UNCHANGED <<jobs, pid, pipeLocals, engineLocals, consumerVars, rescalerVars,
                   tpClosed, panicked, history, trace>>
    /\ UNCHANGED <<engineVars, response, files, clientVars>>

\* consumer: err := jm.UpdateJobProgress(id, progress)
ConsumerApply ==
    /\ ~panicked
    /\ cpc = "apply"
    /\ jobs' = UpdateJobProgress(jobs, pid, cval, clock)
    /\ cpc' = "recv"
    /\ UNCHANGED <<pid, mpc, pipeLocals, engineLocals, cval, rescalerVars,
                   chanFlags, panicked, history, trace>>
    /\ UNCHANGED <<engineVars, response, files, clientVars>>

\* consumer: the range over progressChan ends when the channel is closed
ConsumerExit ==
    /\ ~panicked
    /\ cpc = "recv"
    /\ progressClosed
    /\ cpc' = "done"
    /\ UNCHANGED <<jobs, pid, mpc, pipeLocals, engineLocals, cval, rescalerVars,
                   chanFlags, panicked, history, trace>>
    /\ UNCHANGED <<engineVars, response, files, clientVars>>

\* rescaling goroutine: progressChan <- 20.0 + (progress * 0.75)
Forward ==
    /\ ~panicked
    /\ rpc = "forward"
    /\ cpc = "recv"
    /\ ~progressClosed
    /\ cval' = Scaled(rval)
    /\ cpc' = "apply"
    /\ rpc' = "recv"
    /\ UNCHANGED <<jobs, pid, mpc, pipeLocals, engineLocals, rval, chanFlags,
                   panicked, history, trace>>
    /\ UNCHANGED <<engineVars, response, files, clientVars>>

\* rescaling goroutine: a send on the closed progressChan panics
ForwardOnClosed ==
    /\ ~panicked
    /\ rpc = "forward"
    /\ progressClosed
    /\ panicked' = TRUE
    /\ UNCHANGED <<jobs, pid, mpc, pipeLocals, engineLocals, consumerVars,
                   rescalerVars, chanFlags, history, trace>>
    /\ UNCHANGED <<engineVars, response, files, clientVars>>

\* rescaling goroutine: the range over translationProgressChan ends
RescalerExit ==
    /\ ~panicked
    /\ rpc = "recv"
    /\ tpClosed
    /\ rpc' = "done"
    /\ UNCHANGED <<jobs, pid, mpc, pipeLocals, engineLocals, consumerVars, rval,
                   chanFlags, panicked, history, trace>>
    /\ UNCHANGED <<engineVars, response, files, clientVars>>

\* The steps of the goroutines of ProcessJob.
NextPipeline ==
    \/ GetJob
    \/ SetProcessing
    \/ InitProgress
    \/ Detect
    \/ SendProgress
    \/ Branch
    \/ ListTracks
    \/ Extract
    \/ SetTranslating
    \/ OpenSubtitles
    \/ BatchFinished
    \/ WriteOutput
    \/ TranslateFailed
    \/ CloseTranslationProgress
    \/ SetResult
    \/ CloseProgress
    \/ ConsumerApply
    \/ ConsumerExit
    \/ Forward
    \/ ForwardOnClosed
    \/ RescalerExit

NextJob ==
    \/ \E body \in Bodies, path \in RequestPaths, stat \in Stats,
          trackIndex \in TrackIndexes :
             handleTranslate(body, path, stat, trackIndex)
    \/ Respond
    \/ NextPipeline

\* No TranslateSubtitles call is modelled step by step under SpecJob.
EngineParked ==
    /\ items = <<>>
    /\ orig = <<>>
    /\ provider = "faithful"
    /\ batchSize = 1
    /\ concurrencyLimit = 1
    /\ i = 0
    /\ lpc = "parked"
    /\ semaphore = 0
    /\ wg = 0
    /\ task = <<>>
    /\ resp = <<>>
    /\ translationResultsChan = <<>>
    /\ resultsClosed = FALSE
    /\ closer = "idle"
    /\ allTranslations = <<>>
    /\ calls = <<>>

\* No client of the store is modelled under SpecJob and SpecEngine.
NoCall == [op |-> "none", id |-> 0, args |-> <<>>, err |-> FALSE, ret |-> <<>>]

\* The fields of Job in the order json.Encoder writes them.
Fields == <<"ID", "Status", "Progress", "Path", "TrackIndex", "OutputPath",
            "Error", "CreatedAt", "UpdatedAt">>

\* Nothing was encoded.
NoSnapshot ==
    [ID |-> 0, Status |-> "", Progress |-> Pct(0), Path |-> <<>>, TrackIndex |-> 0,
     OutputPath |-> <<>>, Error |-> "", CreatedAt |-> 0, UpdatedAt |-> 0]

\* The goroutines that call GetJobManager.
Callers == 1..MaxCallers

StoreParked ==
    /\ jobManager = 0
    /\ onceDone = FALSE
    /\ onceM = 0
    /\ instances = <<>>
    /\ gpc = [g \in Callers |-> "idle"]
    /\ got = [g \in Callers |-> -1]
    /\ created = {}
    /\ clock = 0
    /\ last = NoCall
    /\ wpc = "idle"
    /\ wq = <<>>
    /\ committed = {}
    /\ rdpc = 0
    /\ snap = NoSnapshot

\* No call of deriveOutputPath is modelled on its own.
PathParked ==
    /\ givenPath = <<>>
    /\ derived = <<>>
    /\ ppc = "parked"

\* The TranslateSubtitles calls that run at the same time, one per job.
Translating == 1..MaxTranslating

\* One TranslateSubtitles call is modelled at most.
PoolParked ==
    /\ permits = [c \in Translating |-> 0]
    /\ toLaunch = [c \in Translating |-> 0]
    /\ inFlight = [c \in Translating |-> 0]

\* The video files under the media path, in the order the walk finds them.
VideoOrder == <<"a.mkv", "b.mkv">>

Videos == {VideoOrder[k] : k \in 1..Len(VideoOrder)}

\* The database after InitDatabase on a new file; no sync is modelled.
SyncParked ==
    /\ videoRows = {}
    /\ subtitleRows = {}
    /\ modTime = [v \in Videos |-> 0]
    /\ timeNow = 0
    /\ syncs = 0
    /\ current = {}
    /\ dirMap = [v \in Videos |-> 0]
    /\ mediaFiles = {}
    /\ spc = "parked"

ClientsParked == StoreParked /\ PathParked /\ PoolParked /\ SyncParked

InitPipeline == InitJob /\ EngineParked /\ ClientsParked

SpecJob == InitPipeline /\ [][NextJob]_vars

\* The goroutines of ProcessJob are scheduled as long as they can run.
FairSpecJob == SpecJob /\ WF_vars(NextPipeline)

InitEngine == InitTranslate /\ InitJob /\ ClientsParked

SpecEngine == InitEngine /\ [][NextEngine]_vars

\* The goroutines of TranslateSubtitles are scheduled as long as one can
\* run, and every provider call returns.  No step of the call waits on the
\* content of an entry or of an answer: the fair specification draws the
\* number of entries, the batch size, the concurrency limit and the outcome
\* of every provider call, with one content.
InitFairEngine ==
    /\ InitEngine
    /\ provider = "faithful"
    /\ items = SourceItems("distinct", Len(items))

FairSpecEngine == InitFairEngine /\ [][NextEngine]_vars /\ WF_vars(NextEngine)

(***************************************************************************)
(* The job store under the calls of its clients (SpecStore): any client    *)
(* calls any operation with any id, one call at a time (every operation    *)
(* holds jm.mutex from its first to its last statement).  A call that      *)
(* reads time.Now() advances the clock.                                    *)
(***************************************************************************)
\* The arguments of the calls.
StorePaths == {<<"s", ".", "e", "n", ".", "s", "r", "t">>}
StoreTrackIndexes == {0, 1}
StoreStatuses == {"processing", "translating"}
StoreProgress == {Pct(50)}
StoreOutputs == {<<"s", ".", "p", "l", ".", "s", "r", "t">>}
StoreErrors == {"error translating subtitles"}

\* The ids of the calls: the ids of the store and one id it does not have.
StoreIds == 1..(Cardinality(DOMAIN jobs) + 1)

Call(op, id, args, err, ret) ==
    [op |-> op, id |-> id, args |-> args, err |-> err, ret |-> ret]

\* A call with a known id reads time.Now(); one with an unknown id returns
\* before it does.
Now(id) == IF JobNotFound(jobs, id) THEN clock ELSE clock + 1

\* What the clients of the store leave alone.
storeRest == <<pid, mpc, pipeLocals, engineLocals, consumerVars, rescalerVars,
               chanFlags, panicked, history, trace, response, files, readerVars,
               onceVars, pathVars, poolVars, syncVars>>

ClientCreateJob(path, trackIndex) ==
    /\ clock < MaxStoreOps
    /\ jobs' = CreateJob(jobs, path, trackIndex, clock)
    /\ clock' = clock + 1
    /\ last' = Call("CreateJob", FreshId(jobs), <<path, trackIndex>>, FALSE,
                    <<jobs'[FreshId(jobs)]>>)
    /\ UNCHANGED <<engineVars, storeRest>>

ClientGetJob(id) ==
    /\ last' = Call("GetJob", id, <<>>, JobNotFound(jobs, id), GetJobRet(jobs, id))
    /\ UNCHANGED <<jobs, clock>>
    /\ UNCHANGED <<engineVars, storeRest>>

ClientUpdateJobStatus(id, status) ==
    /\ Now(id) <= MaxStoreOps
    /\ jobs' = UpdateJobStatus(jobs, id, status, clock)
    /\ clock' = Now(id)
    /\ last' = Call("UpdateJobStatus", id, <<status>>, JobNotFound(jobs, id), <<>>)
    /\ UNCHANGED <<engineVars, storeRest>>

ClientUpdateJobProgress(id, progress) ==
    /\ Now(id) <= MaxStoreOps
    /\ jobs' = UpdateJobProgress(jobs, id, progress, clock)
    /\ clock' = Now(id)
    /\ last' = Call("UpdateJobProgress", id, <<progress>>, JobNotFound(jobs, id), <<>>)
    /\ UNCHANGED <<engineVars, storeRest>>

ClientSetJobResult(id, path) ==
    /\ Now(id) <= MaxStoreOps
    /\ jobs' = SetJobResult(jobs, id, path, clock)
    /\ clock' = Now(id)
    /\ last' = Call("SetJobResult", id, <<path>>, JobNotFound(jobs, id), <<>>)
    /\ UNCHANGED <<engineVars, storeRest>>

ClientSetJobError(id, msg) ==
    /\ Now(id) <= MaxStoreOps
    /\ jobs' = SetJobError(jobs, id, msg, clock)
    /\ clock' = Now(id)
    /\ last' = Call("SetJobError", id, <<msg>>, JobNotFound(jobs, id), <<>>)
    /\ UNCHANGED <<engineVars, storeRest>>

NextStore ==
    \/ \E path \in StorePaths, trackIndex \in StoreTrackIndexes :
          ClientCreateJob(path, trackIndex)
    \/ \E id \in StoreIds : ClientGetJob(id)
    \/ \E id \in StoreIds, status \in StoreStatuses :
          ClientUpdateJobStatus(id, status)
    \/ \E id \in StoreIds, progress \in StoreProgress :
          ClientUpdateJobProgress(id, progress)
    \/ \E id \in StoreIds, path \in StoreOutputs : ClientSetJobResult(id, path)
    \/ \E id \in StoreIds, msg \in StoreErrors : ClientSetJobError(id, msg)

SpecStore == InitPipeline /\ [][NextStore]_vars

(***************************************************************************)
(* handleJob beside a store operation (SpecReader).  The operation holds   *)
(* jm.mutex and assigns the fields of the job one statement at a time;     *)
(* GetJob holds the read lock only while it looks the pointer up, and      *)
(* handleJob then encodes the fields of the job through the pointer,       *)
(* without the lock.  An unsynchronised read of a field gives the value    *)
(* the field has at that moment.                                           *)
(***************************************************************************)
\* The id of the job handleJob asks for.
ReadId == 1

\* The assignments of an operation, in the order of its statements.
Assignments(op, arg, now) ==
    CASE op = "UpdateJobStatus" ->
            <<<<"Status", arg>>, <<"UpdatedAt", now>>>>
      [] op = "UpdateJobProgress" ->
            <<<<"Progress", arg>>, <<"UpdatedAt", now>>>>
      [] op = "SetJobResult" ->
            <<<<"Status", "completed">>, <<"Progress", Pct(100)>>,
              <<"OutputPath", arg>>, <<"UpdatedAt", now>>>>
      [] op = "SetJobError" ->
            <<<<"Status", "failed">>, <<"Error", arg>>, <<"UpdatedAt", now>>>>

\* The calls made beside handleJob.
WriterCalls ==
    {<<"UpdateJobStatus", st>> : st \in StoreStatuses}
    \cup {<<"UpdateJobProgress", pr>> : pr \in StoreProgress}
    \cup {<<"SetJobResult", out>> : out \in StoreOutputs}
    \cup {<<"SetJobError", msg>> : msg \in StoreErrors}

readerRest == <<pid, mpc, pipeLocals, engineLocals, consumerVars, rescalerVars,
                chanFlags, panicked, history, trace, response, files, last, onceVars,
                pathVars, poolVars, syncVars>>

\* jm.CreateJob, as one step: the job is not in the map before the insert.
WriterCreateJob(path, trackIndex) ==
    /\ jobs = <<>>
    /\ jobs' = CreateJob(jobs, path, trackIndex, clock)
    /\ clock' = clock + 1
    /\ committed' = {jobs'[ReadId]}
    /\ UNCHANGED <<wpc, wq, rdpc, snap>>
    /\ UNCHANGED <<engineVars, readerRest>>

\* jm.mutex.Lock(); job, exists := jm.jobs[id]
WriterLock(call) ==
    /\ wpc = "idle"
    /\ GetJobOk(jobs, ReadId)
    /\ clock < MaxStoreOps
    /\ wq' = Assignments(call[1], call[2], clock)
    /\ clock' = clock + 1
    /\ wpc' = "locked"
    /\ UNCHANGED <<jobs, committed, rdpc, snap>>
    /\ UNCHANGED <<engineVars, readerRest>>

\* job.<field> = <value>
WriterAssign ==
    /\ wpc = "locked"
    /\ wq # <<>>
    /\ jobs' = [jobs EXCEPT ![ReadId][Head(wq)[1]] = Head(wq)[2]]
    /\ wq' = Tail(wq)
    /\ UNCHANGED <<clock, wpc, committed, rdpc, snap>>
    /\ UNCHANGED <<engineVars, readerRest>>

\* return nil; the deferred jm.mutex.Unlock()
WriterUnlock ==
    /\ wpc = "locked"
    /\ wq = <<>>
    /\ wpc' = "idle"
    /\ committed' = committed \cup {jobs[ReadId]}
    /\ UNCHANGED <<jobs, clock, wq, rdpc, snap>>
    /\ UNCHANGED <<engineVars, readerRest>>

\* handleJob: job, err := jm.GetJob(jobID), under the read lock
ReaderGetJob ==
    /\ rdpc = 0
    /\ wpc = "idle"
    /\ GetJobOk(jobs, ReadId)
    /\ rdpc' = 1
    /\ UNCHANGED <<jobs, clock, wpc, wq, committed, snap>>
    /\ UNCHANGED <<engineVars, readerRest>>

\* handleJob: json.NewEncoder(w).Encode(job), one field
ReaderEncodeField ==
    /\ rdpc \in 1..Len(Fields)
    /\ snap' = [snap EXCEPT ![Fields[rdpc]] = jobs[ReadId][Fields[rdpc]]]
    /\ rdpc' = rdpc + 1
    /\ UNCHANGED <<jobs, clock, wpc, wq, committed>>
    /\ UNCHANGED <<engineVars, readerRest>>

NextReader ==
    \/ \E path \in StorePaths, trackIndex \in StoreTrackIndexes :
          WriterCreateJob(path, trackIndex)
    \/ \E call \in WriterCalls : WriterLock(call)
    \/ WriterAssign
    \/ WriterUnlock
    \/ ReaderGetJob
    \/ ReaderEncodeField

SpecReader == InitPipeline /\ [][NextReader]_vars

(***************************************************************************)
(* GetJobManager (SpecOnce): handlers on different goroutines call         *)
(* GetJobManager and use the manager they get.  jobManagerOnce.Do(f)       *)
(* returns at once when the done flag is set; otherwise it takes the       *)
(* mutex of the Once, calls f if the flag is still unset, sets the flag    *)
(* and releases the mutex.                                                 *)
(***************************************************************************)
onceRest == <<jobs, pid, mpc, pipeLocals, engineLocals, consumerVars,
              rescalerVars, chanFlags, panicked, history, trace, response,
              files, clock, last, readerVars, pathVars, poolVars, syncVars>>

\* Once.Do takes the mutex of the Once only when it is free.
OnceLockIgnored(holder) == TRUE

OnceLockFree(holder) == holder = 0

\* a handler calls GetJobManager: jobManagerOnce.Do(...) reads the done flag
EnterDo(g) ==
    /\ gpc[g] = "idle"
    /\ gpc' = [gpc EXCEPT ![g] = IF onceDone THEN "return" ELSE "lock"]
    /\ UNCHANGED <<jobManager, onceDone, onceM, instances, got, created>>
    /\ UNCHANGED <<engineVars, onceRest>>

\* Once.Do, slow path: lock the mutex, read the done flag again
OnceLock(g) ==
    /\ gpc[g] = "lock"
    /\ OnceLockFree(onceM)
    /\ onceM' = g
    /\ gpc' = [gpc EXCEPT ![g] = IF onceDone THEN "unlock" ELSE "construct"]
    /\ UNCHANGED <<jobManager, onceDone, instances, got, created>>
    /\ UNCHANGED <<engineVars, onceRest>>

\* jobManager = NewJobManager()
Construct(g) ==
    /\ gpc[g] = "construct"
    /\ instances' = Append(instances, <<>>)
    /\ jobManager' = Len(instances) + 1
    /\ gpc' = [gpc EXCEPT ![g] = "setDone"]
    /\ UNCHANGED <<onceDone, onceM, got, created>>
    /\ UNCHANGED <<engineVars, onceRest>>

\* Once.Do: the done flag is set when f returned
SetDone(g) ==
    /\ gpc[g] = "setDone"
    /\ onceDone' = TRUE
    /\ gpc' = [gpc EXCEPT ![g] = "unlock"]
    /\ UNCHANGED <<jobManager, onceM, instances, got, created>>
    /\ UNCHANGED <<engineVars, onceRest>>

\* Once.Do: unlock the mutex
OnceUnlock(g) ==
    /\ gpc[g] = "unlock"
    /\ onceM' = 0
    /\ gpc' = [gpc EXCEPT ![g] = "return"]
    /\ UNCHANGED <<jobManager, onceDone, instances, got, created>>
    /\ UNCHANGED <<engineVars, onceRest>>

\* return jobManager
ReturnManager(g) ==
    /\ gpc[g] = "return"
    /\ got' = [got EXCEPT ![g] = jobManager]
    /\ gpc' = [gpc EXCEPT ![g] = "use"]
    /\ UNCHANGED <<jobManager, onceDone, onceM, instances, created>>
    /\ UNCHANGED <<engineVars, onceRest>>

\* handleTranslate: job := jm.CreateJob(path, trackIndex) on the manager it got
HandlerCreateJob(g, path, trackIndex) ==
    /\ gpc[g] = "use"
    /\ got[g] \in 1..Len(instances)
    /\ instances' = [instances EXCEPT
                        ![got[g]] = CreateJob(@, path, trackIndex, clock)]
    /\ created' = created \cup {[jm |-> got[g], id |-> FreshId(instances[got[g]])]}
    /\ gpc' = [gpc EXCEPT ![g] = "done"]
    /\ UNCHANGED <<jobManager, onceDone, onceM, got>>
    /\ UNCHANGED <<engineVars, onceRest>>

NextOnce ==
    \/ \E g \in Callers : EnterDo(g)
    \/ \E g \in Callers : OnceLock(g)
    \/ \E g \in Callers : Construct(g)
    \/ \E g \in Callers : SetDone(g)
    \/ \E g \in Callers : OnceUnlock(g)
    \/ \E g \in Callers : ReturnManager(g)
    \/ \E g \in Callers, path \in StorePaths, trackIndex \in StoreTrackIndexes :
          HandlerCreateJob(g, path, trackIndex)

SpecOnce == InitPipeline /\ [][NextOnce]_vars

(***************************************************************************)
(* Properties of TranslateSubtitles (checked under SpecEngine).            *)
(***************************************************************************)
\* Batch tasks whose provider call is in progress.
InProviderCall == {b \in Batches : task[b] = "running"}

\* Batch tasks that were started and have not yet released their permit.
HoldingPermit == {b \in Batches : task[b] \in {"running", "send", "release"}}

\* C1: at most concurrencyLimit batch tasks are inside their provider call;
\* every permit in the semaphore belongs to a task that was started and has
\* not finished (or to the task the launching loop is about to start), so a
\* task starts only with a permit and gives it back when it finishes, after
\* a success and after a failure alike.
C1_BoundedConcurrency ==
    /\ Cardinality(InProviderCall) <= concurrencyLimit
    /\ semaphore <= concurrencyLimit
    /\ semaphore = Cardinality(HoldingPermit) + (IF lpc = "spawn" THEN 1 ELSE 0)
    /\ \A b \in Batches : task[b] = "idle" <=> (b >= i)

\* C1 witness: the pool is exhausted by running provider calls while the
\* launching loop still has a batch to start, and an earlier task that failed
\* has already given its permit back.
C1_Witness ==
    /\ Cardinality(InProviderCall) = concurrencyLimit
    /\ lpc = "loop"
    /\ i < batchCount
    /\ \E b \in Batches : task[b] = "done" /\ resp[b].err

\* The results of the successful batches in batch order.
RECURSIVE ResultsInBatchOrder(_)
ResultsInBatchOrder(n) ==
    IF n = 0 THEN <<>>
    ELSE ResultsInBatchOrder(n - 1) \o resp[n - 1].translated

\* C2: the merged entries do not depend on the order in which the batch tasks
\* delivered their results: they are what the merge gives when the same
\* results arrive in batch order.
C2_OrderIndependent ==
    lpc = "done" =>
        items = ApplyTranslations(orig, SortByIndex(ResultsInBatchOrder(batchCount)))

\* Batch (counted from 0) that holds the k-th entry.
BatchOfEntry(k) == (k - 1) \div batchSize

\* C3: when exactly one batch failed at the provider, the call returns, the
\* entries of the other batches carry their translated text and the entries
\* of the failed batch keep their original text.
C3_PartialFailure ==
    (/\ lpc = "done"
     /\ Cardinality({b \in Batches : resp[b].err}) = 1
     /\ \A b \in Batches :
           ~resp[b].err =>
               resp[b].translated = Faithful(ToSubtitles(BatchOf(orig, batchSize, b)))) =>
        \A k \in 1..Len(items) :
            items[k] = IF resp[BatchOfEntry(k)].err
                       THEN orig[k]
                       ELSE Faithful(<<orig[k]>>)[1]

(***************************************************************************)
(* Properties of ProcessJob and the job store (checked under SpecJob, the  *)
(* liveness property under FairSpecJob).                                   *)
(***************************************************************************)
\* ProcessJob was invoked, for a job of the store.
Started == pid \in DOMAIN jobs

\* The job ProcessJob was invoked for.
job == jobs[pid]

Terminal == {"completed", "failed"}

StatusesSeen == {history[k] : k \in 1..Len(history)}

\* C4: failed batches never make the job fail.  When TranslateSubtitleFile
\* opened the subtitles and the write did not fail, the pipeline ends with
\* status completed, the derived output path and no error, whatever the
\* number of failed batches; and a job that failed during the translation
\* step failed at the open or at the write.  Status, output path and error
\* of the finished job therefore do not tell how many batches failed.
C4_BatchErrorsNotFatal ==
    Started =>
        /\ (mpc = "done" /\ terr \notin {"unset", "open", "write"}) =>
              /\ job.Status = "completed"
              /\ job.OutputPath = deriveOutputPath(extractedPath)
              /\ job.OutputPath # <<>>
              /\ job.Error = ""
        /\ (job.Status = "failed" /\ terr # "unset") => terr \in {"open", "write"}

\* C4 witness: every batch of a translation failed and the job is completed.
C4_Witness ==
    /\ Started
    /\ mpc = "done"
    /\ total > 1
    /\ failedBatches = total
    /\ job.Status = "completed"
    /\ job.OutputPath # <<>>

\* C5: once ProcessJob was invoked the job reaches completed or failed, and
\* no job has both statuses in its life.
C5_EndsInOneTerminal ==
    /\ (pid # 0) ~> (Started /\ job.Status \in Terminal)
    /\ [](~(Terminal \subseteq StatusesSeen))

\* C5 witness: a pipeline that ran to its end with the job failed at the
\* track index check.
C5_Witness ==
    /\ Started
    /\ mpc = "done"
    /\ job.Status = "failed"
    /\ job.Error = "invalid track index"

\* C6: a job detected as a subtitle file never has status extracting; a job
\* detected as a video has status extracting before it has status translating.
C6_ExtractingOnlyForVideo ==
    Started =>
        /\ IsSubtitle(fileType) => "extracting" \notin StatusesSeen
        /\ IsVideo(fileType) =>
              \A q \in 1..Len(history) :
                  history[q] = "translating" =>
                      \E p \in 1..(q - 1) : history[p] = "extracting"

\* C6 witness: a video job is translating.
C6_Witness ==
    /\ Started
    /\ IsVideo(fileType)
    /\ job.Status = "translating"
    /\ history = <<"pending", "processing", "extracting", "translating">>

StatusEdges ==
    {<<"pending", "processing">>, <<"processing", "extracting">>,
     <<"extracting", "translating">>, <<"processing", "translating">>,
     <<"translating", "completed">>}
    \cup {<<st, "failed">> : st \in {"pending", "processing", "extracting", "translating"}}

\* C7: the status changes only along the edges of the state machine, and a
\* completed or failed job never changes status.
C7_StatusEdges ==
    [][\A id \in DOMAIN jobs :
          jobs'[id].Status # jobs[id].Status =>
              <<jobs[id].Status, jobs'[id].Status>> \in StatusEdges]_vars

\* C7 witness: a job went all the way through the video path.
C7_Witness ==
    history = <<"pending", "processing", "extracting", "translating", "completed">>

C9_ProgressMonotone ==
    [][\A id \in DOMAIN jobs :
          /\ Leq(Pct(0), jobs'[id].Progress) /\ Leq(jobs'[id].Progress, Pct(100))
          /\ (jobs[id].Status \notin Terminal /\ jobs'[id].Status \notin Terminal)
                => Leq(jobs[id].Progress, jobs'[id].Progress)]_vars

\* C10: a completed job has progress 100.
C10_CompletedIsHundred ==
    \A id \in DOMAIN jobs :
        jobs[id].Status = "completed" => jobs[id].Progress = Pct(100)

\* C11: a job whose stored progress is 100 has status completed.
C11_HundredOnlyCompleted ==
    \A id \in DOMAIN jobs :
        jobs[id].Progress = Pct(100) => jobs[id].Status = "completed"

\* C11 witness: the engine reported 100 for its last batch, the rescaled 95
\* was stored while the job was translating, and the write then failed: the
\* job is failed with progress 95.
C11_Witness ==
    /\ Started
    /\ total > 0
    /\ completed = total
    /\ job.Status = "failed"
    /\ job.Progress = Pct(95)

\* The answer handleTranslate writes for the job of pid.
Created == [message |-> "Translation job created", job_id |-> pid]

\* C17: handleTranslate can answer as soon as ProcessJob was called, whatever
\* the position of the pipeline; its answer is the creation message with the
\* job id, also for a job that failed; and a job is failed exactly when the
\* pipeline called SetJobError.
C17_CreationDoesNotWait ==
    /\ (pid # 0 /\ response = NoResponse /\ ~panicked) => ENABLED Respond
    /\ pid # 0 => response \in {NoResponse, Created}
    /\ Started =>
          (job.Status = "failed" <=> \E k \in 1..Len(trace) : trace[k] = "SetJobError")

\* C17 witness: the answer was written while the job is pending and the
\* pipeline goroutine has not made its first step.
C17_Witness ==
    /\ Started
    /\ response = Created
    /\ job.Status = "pending"
    /\ mpc = "getJob"

\* Positions of the SetJobError calls in the trace.
ErrorCalls == {k \in 1..Len(trace) : trace[k] = "SetJobError"}

\* C18: the pipeline calls SetJobError at most once, nothing is invoked
\* after it (no collaborator, no SetJobResult), SetJobResult is never called
\* for a job SetJobError was called for, and a TranslateSubtitleFile that
\* returned an error is followed by the SetJobError call.
C18_ErrorStopsPipeline ==
    /\ Cardinality(ErrorCalls) <= 1
    /\ \A k \in ErrorCalls : k = Len(trace)
    /\ ErrorCalls # {} => \A k \in 1..Len(trace) : trace[k] # "SetJobResult"
    /\ (terr \in {"open", "write", "translate"}
           /\ mpc \in {"closeTpErr", "closeProgress", "done"}) => ErrorCalls # {}
    /\ (Started /\ job.Status = "failed") => ErrorCalls # {}

\* C18 witness: the write of the output failed; the pipeline ended.
C18_Witness ==
    /\ mpc = "done"
    /\ trace = <<"DetectFileType", "ListSubtitleTracks", "ExtractSubtitleTrack",
                 "TranslateSubtitleFile", "Write", "SetJobError">>

\* The track list was read and the track index of the job is out of range.
TrackIndexRejected ==
    /\ Started
    /\ trackCount # -1
    /\ (job.TrackIndex < 0 \/ job.TrackIndex >= trackCount)

C20_UnsupportedFileType ==
    /\ [][(mpc = "branch" /\ fileType = "Unknown" /\ mpc' # mpc) =>
             /\ jobs'[pid].Status = "failed"
             /\ jobs'[pid].Error = "unsupported file type"]_vars
    /\ [](Started =>
            /\ (fileType = "Unknown" /\ mpc \in {"closeProgress", "done"}) =>
                  job.Status = "failed"
            /\ job.Error = "unsupported file type" =>
                  /\ history = <<"pending", "processing", "failed">>
                  /\ trace = <<"DetectFileType", "SetJobError">>)

\* C20 witness: a job failed with the unsupported-file-type error and its
\* pipeline ended.
C20_Witness ==
    /\ Started
    /\ mpc = "done"
    /\ fileType = "Unknown"
    /\ job.Error = "unsupported file type"

(***************************************************************************)
(* Properties of the job store (checked under SpecStore).                  *)
(***************************************************************************)
\* The step is a call of one of the operations ops.
Called(ops) == last' # last /\ last'.op \in ops

\* C12: a CreateJob call adds exactly one job, under an id the store did not
\* have, and changes no other job; the new job is pending, has progress 0,
\* no output path and no error, the path and the track index of the call
\* and equal creation and update times; GetJob with the returned id then
\* succeeds and returns the job CreateJob returned.
C12_CreateJob ==
    [][Called({"CreateJob"}) =>
         LET id == last'.id
         IN  /\ id \notin DOMAIN jobs
             /\ DOMAIN jobs' = DOMAIN jobs \cup {id}
             /\ \A k \in DOMAIN jobs : jobs'[k] = jobs[k]
             /\ jobs'[id].ID = id
             /\ jobs'[id].Status = "pending"
             /\ jobs'[id].Progress = Pct(0)
             /\ jobs'[id].OutputPath = <<>>
             /\ jobs'[id].Error = ""
             /\ jobs'[id].Path = last'.args[1]
             /\ jobs'[id].TrackIndex = last'.args[2]
             /\ jobs'[id].CreatedAt = jobs'[id].UpdatedAt
             /\ GetJobOk(jobs', id)
             /\ GetJobRet(jobs', id) = last'.ret]_vars

\* C12 witness: a second job was created, later than the first, which is
\* completed by then.
C12_Witness ==
    /\ last.op = "CreateJob"
    /\ last.id = 2
    /\ jobs[1].Status = "completed"
    /\ jobs[2].CreatedAt > jobs[1].CreatedAt
    /\ jobs[2].TrackIndex = 1

\* C13: GetJob, UpdateJobStatus, UpdateJobProgress, SetJobResult and
\* SetJobError called with an id the store does not have return the
\* job-not-found error and leave the store as it was.
C13_UnknownIdChangesNothing ==
    [][(Called({"GetJob", "UpdateJobStatus", "UpdateJobProgress",
                "SetJobResult", "SetJobError"})
          /\ last'.id \notin DOMAIN jobs) =>
         /\ last'.err
         /\ last'.ret = <<>>
         /\ jobs' = jobs]_vars

\* C13 witness: SetJobResult was called with id 3 on a store of two jobs.
C13_Witness ==
    /\ last.op = "SetJobResult"
    /\ last.id = 3
    /\ last.err
    /\ DOMAIN jobs = {1, 2}

\* C15: no call removes a job: GetJob succeeds after every call for every
\* id it succeeded for before.
C15_NeverRemoved ==
    [][\A id \in DOMAIN jobs : GetJobOk(jobs', id) /\ jobs'[id].ID = id]_vars

\* C15 witness: a store of two jobs, one failed, the other completed.
C15_Witness ==
    /\ DOMAIN jobs = {1, 2}
    /\ jobs[1].Status = "failed"
    /\ jobs[2].Status = "completed"

(***************************************************************************)
(* Properties of handleJob beside a store operation (under SpecReader).    *)
(***************************************************************************)
\* C14: what handleJob encodes is a value the job had between two
\* operations: no operation is seen partly applied.
C14_ReadersSeeCommitted ==
    rdpc > Len(Fields) => snap \in committed

(***************************************************************************)
(* Properties of GetJobManager (checked under SpecOnce).                   *)
(***************************************************************************)
\* C16: NewJobManager is called at most once, and not before a handler asked
\* for the manager; every call of GetJobManager returns that one manager,
\* never nil; and a job a handler created is in the store of the manager
\* every other handler got.
C16_Singleton ==
    /\ Len(instances) <= 1
    /\ (\A g \in Callers : gpc[g] = "idle") => instances = <<>>
    /\ \A g \in Callers : got[g] # -1 => (got[g] = 1 /\ jobManager = 1)
    /\ \A c \in created : \A h \in Callers :
          got[h] # -1 => (c.jm = got[h] /\ GetJobOk(instances[got[h]], c.id))

\* C16 witness: two handlers raced on the first use, one constructed the
\* manager while the other waited for the mutex of the Once; both got the
\* manager and both created a job in it.
C16_Witness ==
    /\ \A g \in {1, 2} : got[g] = 1 /\ gpc[g] = "done"
    /\ Cardinality(created) = 2
    /\ DOMAIN instances[1] = {1, 2}

(***************************************************************************)
(* deriveOutputPath on its own (SpecPath).  The input is the path of a     *)
(* file astisub.OpenFile has opened: a non-empty string that does not end  *)
(* in a path separator, here a concatenation of at most MaxTokens tokens.  *)
(***************************************************************************)
PathTokens == {<<"m">>, <<"/">>, <<".", "s">>, <<".", "h", "i">>,
               DotEn, DotEng, UnderEn, UnderEng, <<".", "p", "l">>}

RECURSIVE Concat(_)
Concat(ts) == IF ts = <<>> THEN <<>> ELSE Head(ts) \o Concat(Tail(ts))

InputPaths ==
    {Concat(ts) : ts \in {t \in UNION {[1..n -> PathTokens] : n \in 1..MaxTokens} :
                              t[Len(t)] # <<"/">>}}

PathCall ==
    /\ givenPath \in InputPaths
    /\ derived = <<>>
    /\ ppc = "call"

\* outputPath = deriveOutputPath(givenPath)
Derive ==
    /\ ppc = "call"
    /\ derived' = deriveOutputPath(givenPath)
    /\ ppc' = "done"
    /\ UNCHANGED <<givenPath, engineVars, jobVars, clock, last, readerVars, onceVars,
                   poolVars, syncVars>>

NextPath == Derive

InitPath ==
    InitJob /\ EngineParked /\ StoreParked /\ PoolParked /\ SyncParked /\ PathCall

SpecPath == InitPath /\ [][NextPath]_vars

(***************************************************************************)
(* The parts of a path: the directory (up to and including the last path   *)
(* separator), the file name, and the file name split at its last dot.     *)
(***************************************************************************)
\* position (from 1) of the last c in p, 0 when p has none
LastPos(p, c) ==
    LET at == {k \in 1..Len(p) : p[k] = c}
    IN  IF at = {} THEN 0 ELSE CHOOSE k \in at : \A m \in at : m <= k

DirOf(p) == SubSeq(p, 1, LastPos(p, "/"))

FileNameOf(p) == SubSeq(p, LastPos(p, "/") + 1, Len(p))

HasExtension(p) == LastPos(FileNameOf(p), ".") > 0

\* the path without the final extension of its file name, and that extension
BaseOf(p) == SubSeq(p, 1, Len(DirOf(p)) + LastPos(FileNameOf(p), ".") - 1)

ExtensionOf(p) == SubSeq(p, Len(BaseOf(p)) + 1, Len(p))

EndsWith(s, t) == Len(s) >= Len(t) /\ \A k \in 1..Len(t) : s[Len(s) - Len(t) + k] = t[k]

\* The rule list, in priority order: a suffix of the base and what replaces it.
Rules == <<[suffix |-> DotEngHi, with |-> DotPl], [suffix |-> DotEnHi, with |-> DotPl],
           [suffix |-> UnderEngHi, with |-> UnderPl],
           [suffix |-> UnderEnHi, with |-> UnderPl],
           [suffix |-> DotEng, with |-> DotPl], [suffix |-> DotEn, with |-> DotPl],
           [suffix |-> UnderEng, with |-> UnderPl],
           [suffix |-> UnderEn, with |-> UnderPl]>>

RuleListResult(p) ==
    LET base == BaseOf(p)
        fits == {r \in 1..Len(Rules) : EndsWith(base, Rules[r].suffix)}
        first == CHOOSE r \in fits : \A q \in fits : r <= q
    IN  IF fits = {} THEN base \o DotPl \o ExtensionOf(p)
        ELSE SubSeq(base, 1, Len(base) - Len(Rules[first].suffix))
                 \o Rules[first].with \o ExtensionOf(p)

\* C21: for every input path whose file name has an extension, the path
\* deriveOutputPath returns is the one the rule list gives: the first rule,
\* in priority order, whose suffix ends the base has that suffix replaced
\* (.eng.hi/.en.hi by .pl, _eng.hi/_en.hi by _pl, .eng/.en by .pl, _eng/_en
\* by _pl), .pl is appended to the base when no rule fits, and the original
\* extension is put back.
C21_RuleList ==
    (ppc = "done" /\ HasExtension(givenPath)) => derived = RuleListResult(givenPath)

\* C21 witness: m_en.hi.s was given and m_pl.s came back (the second rule
\* fitted, and so did not the third or the fourth).
C21_Witness ==
    /\ ppc = "done"
    /\ givenPath = <<"m">> \o UnderEn \o <<".", "h", "i", ".", "s">>
    /\ derived = <<"m">> \o UnderPl \o <<".", "s">>

\* C22: for every input path whose file name contains no dot, the returned
\* path is the whole input path with .pl appended.
C22_NoExtension ==
    (ppc = "done" /\ ~HasExtension(givenPath)) => derived = givenPath \o DotPl

\* C23: the returned path is in the directory of the input path: only the
\* file name changes.
C23_SameDirectory ==
    ppc = "done" => DirOf(derived) = DirOf(givenPath)

\* C24: temporary files are cleaned up automatically: once the job of a video
\* file has a terminal status, the subtitle file the pipeline extracted from
\* the video no longer exists.
C24_TemporaryFilesCleaned ==
    (Started /\ IsVideo(fileType) /\ job.Status \in Terminal) => extractedPath \notin files

(***************************************************************************)
(* Properties of TranslateSubtitles under any provider (SpecEngine).       *)
(***************************************************************************)
\* The indexes of the translations collected.
IndexesTranslated == {allTranslations[t].Index : t \in 1..Len(allTranslations)}

\* C25: TranslateSubtitles never reorders, drops or adds entries: the list
\* has the same length, every entry has the index and the number of lines it
\* had and every line the number of runs it had, so only run texts may
\* differ; and an entry whose index no returned translation carries is
\* unchanged after the call (a translation with a stray index changes
\* nothing).
C25_EntriesKept ==
    /\ Len(items) = Len(orig)
    /\ \A k \in 1..Len(items) :
          /\ items[k].Index = orig[k].Index
          /\ Len(items[k].Lines) = Len(orig[k].Lines)
          /\ \A l \in 1..Len(items[k].Lines) :
                Len(items[k].Lines[l]) = Len(orig[k].Lines[l])
    /\ lpc = "done" =>
          \A k \in 1..Len(items) :
              orig[k].Index \notin IndexesTranslated => items[k] = orig[k]

\* C25 witness: the call returned; the answer for the batch of the entries 1
\* and 2 carried a stray index for entry 1 and the index of entry 2: entry 1
\* is as it was, entry 2 has new text.
C25_Witness ==
    /\ lpc = "done"
    /\ provider = "straying"
    /\ batchSize = 2
    /\ Len(items) >= 2
    /\ ~resp[0].err
    /\ orig[1].Index + 100 \in IndexesTranslated
    /\ items[1] = orig[1]
    /\ items[2] # orig[2]

\* The translation has a run j in a line l.
HasRun(translation, l, j) ==
    l <= Len(translation.Lines) /\ j <= Len(translation.Lines[l])

\* C29: when a translation with the index of an entry was returned, the run
\* texts of the entry are overwritten by position, and only where the
\* translation has the line and the run: run j of line l has the text of run
\* j of line l of the translation; a run without counterpart keeps its
\* original text, and so does every line beyond the translated lines.
C29_ByPosition ==
    lpc = "done" =>
        \A k \in 1..Len(items) :
            orig[k].Index \in IndexesTranslated =>
                \E t \in 1..Len(allTranslations) :
                    /\ allTranslations[t].Index = orig[k].Index
                    /\ \A l \in 1..Len(orig[k].Lines) :
                          \A j \in 1..Len(orig[k].Lines[l]) :
                              items[k].Lines[l][j] =
                                  IF HasRun(allTranslations[t], l, j)
                                  THEN allTranslations[t].Lines[l][j]
                                  ELSE orig[k].Lines[l][j]

\* C29 witness: the provider answered entry 1 (two lines, the first of two
\* runs) with one line of one run, and entry 2 (one line of one run) with
\* two lines: the first run of entry 1 is translated, its other runs are as
\* they were, and entry 2 has its one run translated and no more.
C29_Witness ==
    /\ lpc = "done"
    /\ provider = "reshaping"
    /\ Len(items) >= 2
    /\ {orig[1].Index, orig[2].Index} \subseteq IndexesTranslated
    /\ orig[1].Index # orig[2].Index
    /\ items[1].Lines = << <<Tr(orig[1].Lines[1][1]), orig[1].Lines[1][2]>>,
                           orig[1].Lines[2] >>
    /\ items[2].Lines = << <<Tr(orig[2].Lines[1][1])>> >>

\* The number of batch goroutines of the call, and the slice of the entries
\* that batch b (counted from 0) is to hold: the positions b*size+1 to
\* min((b+1)*size, n) of the list.
TaskCount == Cardinality(DOMAIN task)

SliceOf(b) ==
    [k \in 1..(Min((b + 1) * batchSize, Len(orig)) - b * batchSize) |->
        orig[b * batchSize + k]]

RECURSIVE SlicesUpTo(_)
SlicesUpTo(b) == IF b < 0 THEN <<>> ELSE SlicesUpTo(b - 1) \o SliceOf(b)

\* C27: a list of n entries with batch size b is translated in exactly
\* ceil(n/b) batches; batch i holds the contiguous slice [i*b, min((i+1)*b,
\* n)) of the entries, so every entry is in exactly one batch, in order, no
\* batch holds more than b entries and only the last may hold fewer; every
\* batch is handed to the provider, and a list of no entries makes no batch
\* and no provider call.
C27_Batching ==
    /\ TaskCount * batchSize >= Len(orig)
    /\ (TaskCount - 1) * batchSize < Len(orig)
    /\ DOMAIN task = 0..(TaskCount - 1)
    /\ SlicesUpTo(TaskCount - 1) = orig
    /\ \A b \in DOMAIN task :
          /\ Len(SliceOf(b)) <= batchSize
          /\ b < TaskCount - 1 => Len(SliceOf(b)) = batchSize
          /\ Len(SliceOf(b)) >= 1
          /\ (calls[b] > 0 /\ ~resp[b].err /\ provider = "faithful") =>
                resp[b].translated = Faithful(ToSubtitles(SliceOf(b)))
          /\ lpc = "done" => calls[b] >= 1
    /\ Len(orig) = 0 => (TaskCount = 0 /\ calls = <<>>)

\* C27 witness: three entries in batches of two: the call returned after a
\* batch of the entries 1 and 2 and a batch of entry 3 were translated.
C27_Witness ==
    /\ lpc = "done"
    /\ provider = "faithful"
    /\ Len(orig) = 3
    /\ batchSize = 2
    /\ TaskCount = 2
    /\ \A b \in {0, 1} : calls[b] = 1 /\ ~resp[b].err
    /\ Len(resp[0].translated) = 2
    /\ Len(resp[1].translated) = 1

\* C30: the provider is invoked exactly once per batch, whether the call
\* succeeds or fails: never twice for a batch (no retry, no double
\* translation), once as soon as the goroutine of the batch is past the
\* call, and once for every batch when TranslateSubtitles returns.
C30_OneCallPerBatch ==
    \A b \in DOMAIN task :
        /\ calls[b] <= 1
        /\ task[b] \in {"send", "release", "wgdone", "done"} => calls[b] = 1
        /\ task[b] \in {"idle", "running"} => calls[b] = 0
        /\ lpc = "done" => calls[b] = 1

\* C30 witness: the call returned after one batch failed at the provider and
\* another succeeded; each was sent to the provider once.
C30_Witness ==
    /\ lpc = "done"
    /\ \E b, c \in DOMAIN task : resp[b].err /\ ~resp[c].err
    /\ \A b \in DOMAIN task : calls[b] = 1

\* C28: TranslateSubtitles terminates for every number of entries, every
\* batch size >= 1 and every concurrency limit >= 1, provided every provider
\* call returns: no goroutine of a batch ever blocks when it delivers its
\* result (the results channel has room for it and is open), and the call
\* returns in the end, so it does not deadlock.
C28_Terminates ==
    /\ [](\A b \in DOMAIN task : task[b] = "send" => ENABLED SendResult(b))
    /\ <>(lpc = "done")

\* C28 witness: the call returned although there were more batches than
\* permits and than the launching loop could collect while it launched:
\* every result had been delivered into the channel before the first was
\* collected.
C28_Witness ==
    /\ lpc = "done"
    /\ TaskCount > concurrencyLimit
    /\ \A b \in DOMAIN task : task[b] = "done" /\ ~resp[b].err
    /\ Len(allTranslations) = Len(orig)

(***************************************************************************)
(* Several jobs translating at the same time (SpecPool).  ProcessJob makes *)
(* a Translator per job and TranslateSubtitles makes its semaphore when it *)
(* is called: the semaphore of call c is the channel c.  A batch goroutine *)
(* holds its permit from the send of the launching loop to its deferred    *)
(* receive, the provider call in between.                                  *)
(***************************************************************************)
SharedSemaphore(c) == Min(c, 1)

\* semaphore := make(chan struct{}, concurrencyLimit): a local of the call
SemaphoreOf(c) == c

\* semaphore <- struct{}{}; wg.Add(1); go func(batch) {...}(batch)
LaunchBatch(c) ==
    /\ toLaunch[c] > 0
    /\ SemaphoreCanSend(permits[SemaphoreOf(c)], concurrencyLimit)
    /\ permits' = [permits EXCEPT ![SemaphoreOf(c)] = @ + 1]
    /\ toLaunch' = [toLaunch EXCEPT ![c] = @ - 1]
    /\ inFlight' = [inFlight EXCEPT ![c] = @ + 1]
    /\ UNCHANGED <<engineVars, jobVars, clock, last, readerVars, onceVars, pathVars,
                   syncVars>>

\* translateBatch returned; defer func() { <-semaphore }()
FinishBatch(c) ==
    /\ inFlight[c] > 0
    /\ permits' = [permits EXCEPT ![SemaphoreOf(c)] = @ - 1]
    /\ inFlight' = [inFlight EXCEPT ![c] = @ - 1]
    /\ UNCHANGED toLaunch
    /\ UNCHANGED <<engineVars, jobVars, clock, last, readerVars, onceVars, pathVars,
                   syncVars>>

NextPool == \E c \in Translating : LaunchBatch(c) \/ FinishBatch(c)

\* Every job has its batches to launch; all translators have the default
\* configuration, so one concurrency limit.
InitPool ==
    /\ InitJob
    /\ StoreParked
    /\ PathParked
    /\ SyncParked
    /\ items = <<>>
    /\ orig = <<>>
    /\ provider = "faithful"
    /\ batchSize = 1
    /\ concurrencyLimit \in 1..MaxConcurrency
    /\ i = 0
    /\ lpc = "parked"
    /\ semaphore = 0
    /\ wg = 0
    /\ task = <<>>
    /\ resp = <<>>
    /\ translationResultsChan = <<>>
    /\ resultsClosed = FALSE
    /\ closer = "idle"
    /\ allTranslations = <<>>
    /\ calls = <<>>
    /\ permits = [c \in Translating |-> 0]
    /\ toLaunch \in [Translating -> 0..MaxEntries]
    /\ inFlight = [c \in Translating |-> 0]

SpecPool == InitPool /\ [][NextPool]_vars

\* C26: the pool of permits is private to one TranslateSubtitles call.  The
\* launching loop of a job waits only while concurrencyLimit batch goroutines
\* of that same job hold a permit, never for a permit another job holds, and
\* no job has more than concurrencyLimit provider calls in flight.
C26_PrivatePermits ==
    \A c \in Translating :
        /\ inFlight[c] <= concurrencyLimit
        /\ (toLaunch[c] > 0 /\ inFlight[c] < concurrencyLimit) => ENABLED LaunchBatch(c)

\* C26 witness: every job has concurrencyLimit provider calls in flight at
\* the same moment, more than one each.
C26_Witness ==
    /\ concurrencyLimit > 1
    /\ \A c \in Translating : inFlight[c] = concurrencyLimit

(***************************************************************************)
(* Properties of the progress stream and of the exits of ProcessJob        *)
(* (SpecJob, FairSpecJob).                                                 *)
(***************************************************************************)
\* The value q is 20 + p*0.75.
IsRescaled(p, q) == q[1] * 4 * p[2] = (80 * p[2] + 3 * p[1]) * q[2]

BeforeDetection == Started /\ mpc = "detect"

\* The pipeline failed at the file-type detection.
FailedAtDetection == Started /\ job.Error = "error detecting file type"

\* C32: status processing and progress 1% are both stored before the source
\* kind is determined, so a job that fails at file-type detection has
\* progress 1 at the moment it becomes failed.
C32_OnePercentBeforeDetection ==
    /\ BeforeDetection => (job.Status = "processing" /\ job.Progress = Pct(1))
    /\ FailedAtDetection => (job.Status = "failed" /\ job.Progress = Pct(1))

\* C32, amended: status processing and progress 0% are both stored before
\* the source kind is determined; 1% is sent only after the detection
\* succeeded; so a job that fails at file-type detection has progress 0 at
\* the moment it becomes failed, and keeps it.
C32_ZeroPercentBeforeDetection ==
    /\ BeforeDetection => (job.Status = "processing" /\ job.Progress = Pct(0))
    /\ mpc = "send1" => (trace = <<"DetectFileType">> /\ job.Progress = Pct(0))
    /\ FailedAtDetection => (job.Status = "failed" /\ job.Progress = Pct(0))

\* C32 witness: the detection failed and the pipeline ended: the job is
\* failed with progress 0.
C32_Witness ==
    /\ FailedAtDetection
    /\ mpc = "done"
    /\ job.Status = "failed"
    /\ job.Progress = Pct(0)

\* C33: no goroutine of ProcessJob ever sends on a progress channel that was
\* closed: when the job progress channel is closed, the rescaling goroutine
\* has no forward pending, and no send on the closed channel ever panics.
C33_NoSendOnClosed ==
    /\ progressClosed => rpc # "forward"
    /\ ~panicked

\* C34: on every exit path of ProcessJob after the job progress channel was
\* made, that channel is closed when ProcessJob has returned, and so is the
\* translation progress channel once it was made; the progress consumer and
\* the rescaling goroutine then end by leaving their loops: none is left
\* that can only panic, and none has panicked.
C34_ListenersEnd ==
    /\ (mpc = "done" /\ cpc # "idle") => progressClosed
    /\ (mpc = "done" /\ rpc # "idle") => tpClosed
    /\ (mpc = "done" /\ cpc = "done") => rpc \in {"idle", "done", "recv"}
    /\ ~panicked

(***************************************************************************)
(* Further properties of deriveOutputPath (SpecPath).                      *)
(***************************************************************************)
\* C35: for every input path, deriveOutputPath returns a path different from
\* its input, so a translation written to the derived path never overwrites
\* the subtitle file it was made from.
C35_NeverTheInput ==
    ppc = "done" => derived # givenPath

\* C35 witness: a file that already carries the .pl tag was given: m.pl.s
\* gave m.pl.pl.s.
C35_Witness ==
    /\ ppc = "done"
    /\ givenPath = <<"m", ".", "p", "l", ".", "s">>
    /\ derived = <<"m", ".", "p", "l", ".", "p", "l", ".", "s">>

\* The base and the extension as the function cuts them: at the last dot of
\* the path.
CutBase(p) == SubSeq(p, 1, LastPos(p, ".") - 1)

CutExtension(p) == SubSeq(p, LastPos(p, "."), Len(p))

\* The rules in pairs of alternatives, in priority order: pair g holds the
\* rules 2g-1 and 2g.
PairFits(base, g) ==
    EndsWith(base, Rules[2 * g - 1].suffix) \/ EndsWith(base, Rules[2 * g].suffix)

\* C36: when a language-tag rule applies, the index computed as the maximum
\* of the last occurrences of the two alternative suffixes is the start of
\* the suffix that ends the base, and the result is the base up to there,
\* earlier occurrences of language tags included, then the replacement, then
\* the extension, both unchanged.
C36_ExactSuffixReplaced ==
    (ppc = "done" /\ LastPos(givenPath, ".") > 0) =>
        LET base == CutBase(givenPath)
        IN  \A g \in 1..(Len(Rules) \div 2) :
                (PairFits(base, g) /\ \A h \in 1..(g - 1) : ~PairFits(base, h)) =>
                    LET a == Rules[2 * g - 1].suffix
                        b == Rules[2 * g].suffix
                        hit == IF EndsWith(base, a) THEN a ELSE b
                        start == Len(base) - Len(hit)
                    IN  /\ max(lastIndexOf(base, a), lastIndexOf(base, b)) = start
                        /\ derived = SubSeq(base, 1, start) \o Rules[2 * g].with
                                         \o CutExtension(givenPath)

\* C36 witness: m.en.en.s gave m.en.pl.s: the tag that ends the base was
\* replaced, the earlier one kept.
C36_Witness ==
    /\ ppc = "done"
    /\ givenPath = <<"m">> \o DotEn \o DotEn \o <<".", "s">>
    /\ derived = <<"m">> \o DotEn \o DotPl \o <<".", "s">>

(***************************************************************************)
(* Properties of handleTranslate and of the completion of a job (SpecJob). *)
(***************************************************************************)
\* The request is one handleTranslate must refuse.
Refused(body, path, stat, trackIndex) ==
    \/ body # "parsed"
    \/ path = <<>>
    \/ stat # "ok"
    \/ trackIndex < 0

\* C37: handleTranslate creates a job and starts the pipeline only after
\* validation.  A request with an unreadable or unparsable body, an empty
\* path, a file that does not exist (or cannot be examined) or a negative
\* track index creates no job and starts no pipeline; an accepted request
\* creates exactly one job, with the path and track index of the request,
\* and invokes ProcessJob once, for the fresh id of that job; every job of
\* the store is the one ProcessJob was invoked for.
C37_ValidatedBeforeCreation ==
    /\ [][\A body \in Bodies, path \in RequestPaths, stat \in Stats,
             trackIndex \in TrackIndexes :
             handleTranslate(body, path, stat, trackIndex) =>
                 IF Refused(body, path, stat, trackIndex)
                 THEN /\ jobs' = jobs
                      /\ pid' = pid
                      /\ mpc' = "idle"
                      /\ response'.job_id = 0 /\ response'.message # ""
                 ELSE /\ DOMAIN jobs' = DOMAIN jobs \cup {pid'}
                      /\ pid' \notin DOMAIN jobs
                      /\ jobs'[pid'].Path = path
                      /\ jobs'[pid'].TrackIndex = trackIndex
                      /\ mpc = "idle" /\ mpc' = "getJob"]_vars
    /\ [][pid # 0 => pid' = pid]_vars
    /\ [](DOMAIN jobs = IF pid = 0 THEN {} ELSE {pid})
    /\ []((mpc # "idle") => pid # 0)

\* C37 witness: a request with a negative track index for a file that exists
\* was refused: no job, no pipeline.
C37_Witness ==
    /\ response = [message |-> "Invalid parameter", job_id |-> 0]
    /\ jobs = <<>>
    /\ pid = 0
    /\ mpc = "idle"

\* The subtitle file the translation reads: the extracted file for a video,
\* the file of the job for a subtitle file.
SourceSubtitles ==
    IF IsVideo(fileType) THEN ExtractedPathOf(job.Path, langCode) ELSE job.Path

\* C38: a job has status completed only after the translated subtitles were
\* written to the path stored as its output path: the write to that path
\* succeeded, TranslateSubtitleFile returned no error, SetJobResult was
\* called after the write, and the stored path is deriveOutputPath of the
\* extracted path (video) or of the source path (subtitle file).
C38_CompletedAfterWrite ==
    (Started /\ job.Status = "completed") =>
        /\ job.OutputPath \in files
        /\ terr = ""
        /\ job.OutputPath = deriveOutputPath(SourceSubtitles)
        /\ \E w, r \in 1..Len(trace) :
              w < r /\ trace[w] = "Write" /\ trace[r] = "SetJobResult"
        /\ \A k \in 1..Len(trace) : trace[k] # "SetJobError"

\* C38 witness: the job of the video m.mkv, track language eng, is completed:
\* m.eng.srt was extracted and m.pl.srt written and stored as output path.
C38_Witness ==
    /\ Started
    /\ job.Status = "completed"
    /\ IsVideo(fileType)
    /\ extractedPath = <<"m", ".", "e", "n", "g", ".", "s", "r", "t">>
    /\ job.OutputPath = <<"m", ".", "p", "l", ".", "s", "r", "t">>
    /\ job.OutputPath \in files

(***************************************************************************)
(* The media cache and RunBackgroundSync.  One media path is configured;   *)
(* the video files Videos lie in it.  Times are counted in half seconds.   *)
(* A row of videos is [id, path, scan_time]; a row of subtitles is         *)
(* [video_id, path, track_index, language, embedded], path "" standing for *)
(* NULL.  A GroupedMediaFile is [ScanTime, VideoFile, Subtitles] and a     *)
(* SubtitleInfo is [Path, TrackIndex, Language, Embedded].  Within one     *)
(* video id no subtitle is inserted twice, so the rows of one video are a  *)
(* set.                                                                    *)
(***************************************************************************)
MaxSyncs == 2

MaxTime == 3

\* time.Now().Unix(), read back with time.Unix(scanTime, 0): whole seconds
Unix(t) == t - (t % 2)

\* ff.ListSubtitleTracks(videoFile.Path), as SubtitleInfo values
ListSubtitleTracks(v) ==
    IF v = "a.mkv"
    THEN {[Path |-> "", TrackIndex |-> 0, Language |-> "en", Embedded |-> TRUE],
          [Path |-> "", TrackIndex |-> 1, Language |-> "pl", Embedded |-> TRUE]}
    ELSE {[Path |-> "", TrackIndex |-> 0, Language |-> "en", Embedded |-> TRUE]}

\* the subtitle files of the directory with the episode base of the video
matchingSubs(v) ==
    IF v = "a.mkv"
    THEN {[Path |-> "a.en.srt", TrackIndex |-> 0, Language |-> "en",
           Embedded |-> FALSE]}
    ELSE {}

\* db.GetCachedMediaFiles(dirPath): every video row with the subtitle rows
\* whose video_id is the id of that row
GetCachedMediaFiles(vrows, srows) ==
    {[ScanTime |-> r.scan_time,
      VideoFile |-> r.path,
      Subtitles |-> {[Path |-> q.path, TrackIndex |-> q.track_index,
                      Language |-> q.language, Embedded |-> q.embedded]
                     : q \in {x \in srows : x.video_id = r.id}}]
     : r \in vrows}

\* findMediaPath(currentCached, videoFile.Path): found
foundMediaPath(cached, path) == \E f \in cached : f.VideoFile = path

\* findMediaPath(currentCached, videoFile.Path): the file found
findMediaPath(cached, path) == CHOOSE f \in cached : f.VideoFile = path

\* probe: ffmpeg is asked only for a video that is not cached or was modified
\* after its cached scan time
probe(cached, mods, v) ==
    IF foundMediaPath(cached, v)
    THEN findMediaPath(cached, v).ScanTime < mods[v]
    ELSE TRUE

\* groupMediaFilesByDirectory(dirMap, ff, currentCached); failing are the
\* videos for which ListSubtitleTracks returns an error
groupMediaFilesByDirectory(mods, cached, failing, t) ==
    {[ScanTime |-> t,
      VideoFile |-> v,
      Subtitles |-> matchingSubs(v) \cup
                    (IF probe(cached, mods, v) /\ v \notin failing
                     THEN ListSubtitleTracks(v)
                     ELSE {})]
     : v \in Videos}

\* The largest id of the table; a new row gets the next one.
MaxRowId(rows) ==
    IF rows = {} THEN 0
    ELSE CHOOSE m \in {r.id : r \in rows} : \A r \in rows : r.id <= m

\* INSERT OR REPLACE INTO videos: the row with the same path is deleted and,
\* where foreign keys are enforced on the connection, its subtitles with it
insertVideo(db, path, t, foreignKeys) ==
    LET old == {r \in db.v : r.path = path}
    IN  [v |-> (db.v \ old) \cup
               {[id |-> MaxRowId(db.v) + 1, path |-> path, scan_time |-> t]},
         s |-> IF foreignKeys
               THEN {q \in db.s : q.video_id \notin {r.id : r \in old}}
               ELSE db.s]

\* INSERT OR REPLACE INTO subtitles, for all subtitles of one media file;
\* UNIQUE(video_id, path, track_index) replaces a row only where path is not
\* NULL
insertSubtitle(srows, videoID, subs) ==
    {q \in srows : ~ \E sub \in subs :
                       /\ sub.Path # ""
                       /\ q.video_id = videoID
                       /\ q.path = sub.Path
                       /\ q.track_index = sub.TrackIndex}
    \cup {[video_id |-> videoID, path |-> sub.Path,
           track_index |-> sub.TrackIndex, language |-> sub.Language,
           embedded |-> sub.Embedded] : sub \in subs}

RECURSIVE CacheFrom(_, _, _, _, _, _)
\* for _, media := range mediaFiles, from the k-th file on; undetected are
\* the videos for which DetectFileType returns an error
CacheFrom(db, media, k, t, foreignKeys, undetected) ==
    IF k > Len(VideoOrder) THEN db
    ELSE IF \/ ~ \E x \in media : x.VideoFile = VideoOrder[k]
            \/ VideoOrder[k] \in undetected
    THEN CacheFrom(db, media, k + 1, t, foreignKeys, undetected)
    ELSE LET one == CHOOSE x \in media : x.VideoFile = VideoOrder[k]
             withVideo == insertVideo(db, one.VideoFile, t, foreignKeys)
             videoID == MaxRowId(db.v) + 1
         IN  CacheFrom([v |-> withVideo.v,
                        s |-> insertSubtitle(withVideo.s, videoID, one.Subtitles)],
                       media, k + 1, t, foreignKeys, undetected)

\* db.CacheMediaFiles(mediaFiles) at time t, committed
CacheMediaFiles(db, media, t, foreignKeys, undetected) ==
    CacheFrom(db, media, 1, Unix(t), foreignKeys, undetected)

syncRest == <<engineVars, jobVars, clock, last, readerVars, onceVars, pathVars,
              poolVars>>

\* Time passes.
Tick ==
    /\ timeNow < MaxTime
    /\ timeNow' = timeNow + 1
    /\ UNCHANGED <<videoRows, subtitleRows, modTime, syncs, current, dirMap,
                   mediaFiles, spc, syncRest>>

\* A video file is written to.
Touch(v) ==
    /\ modTime[v] # timeNow
    /\ modTime' = [modTime EXCEPT ![v] = timeNow]
    /\ UNCHANGED <<videoRows, subtitleRows, timeNow, syncs, current, dirMap,
                   mediaFiles, spc, syncRest>>

\* case <-ticker.C: current, err := db.GetCachedMediaFiles(path.Path)
SyncGetCached(ok) ==
    /\ spc = "idle"
    /\ syncs < MaxSyncs
    /\ IF ok
       THEN /\ current' = GetCachedMediaFiles(videoRows, subtitleRows)
            /\ spc' = "find"
            /\ UNCHANGED syncs
       ELSE /\ syncs' = syncs + 1
            /\ UNCHANGED <<current, spc>>
    /\ UNCHANGED <<videoRows, subtitleRows, modTime, timeNow, dirMap, mediaFiles,
                   syncRest>>

\* mediaFiles, err := FindMediaFiles(path.Path, current)
SyncFind(failing) ==
    /\ spc = "find"
    /\ dirMap' = modTime
    /\ mediaFiles' = groupMediaFilesByDirectory(modTime, current, failing, timeNow)
    /\ spc' = "cache"
    /\ UNCHANGED <<videoRows, subtitleRows, modTime, timeNow, syncs, current,
                   syncRest>>

\* if len(mediaFiles) > 0 { db.CacheMediaFiles(mediaFiles) }; the transaction
\* commits or is rolled back
SyncCache(foreignKeys, undetected, commit) ==
    /\ spc = "cache"
    /\ IF mediaFiles # {} /\ commit
       THEN LET db == CacheMediaFiles([v |-> videoRows, s |-> subtitleRows],
                                      mediaFiles, timeNow, foreignKeys, undetected)
            IN  /\ videoRows' = db.v
                /\ subtitleRows' = db.s
       ELSE UNCHANGED <<videoRows, subtitleRows>>
    /\ syncs' = syncs + 1
    /\ spc' = "idle"
    /\ UNCHANGED <<modTime, timeNow, current, dirMap, mediaFiles, syncRest>>

NextSync ==
    \/ Tick
    \/ \E v \in Videos : Touch(v)
    \/ \E ok \in BOOLEAN : SyncGetCached(ok)
    \/ \E failing \in SUBSET Videos : SyncFind(failing)
    \/ \E foreignKeys \in BOOLEAN, undetected \in SUBSET Videos, commit \in BOOLEAN :
           SyncCache(foreignKeys, undetected, commit)

\* The database is new, the files are on disk, the ticker is running.
InitSync ==
    /\ InitJob
    /\ EngineParked
    /\ StoreParked
    /\ PathParked
    /\ PoolParked
    /\ videoRows = {}
    /\ subtitleRows = {}
    /\ modTime = [v \in Videos |-> 0]
    /\ timeNow = 0
    /\ syncs = 0
    /\ current = {}
    /\ dirMap = [v \in Videos |-> 0]
    /\ mediaFiles = {}
    /\ spc = "idle"

SpecSync == InitSync /\ [][NextSync]_vars

\* The embedded tracks a cache listing holds for a video.
EmbeddedOf(cached, v) ==
    IF foundMediaPath(cached, v)
    THEN {sub \in findMediaPath(cached, v).Subtitles : sub.Embedded}
    ELSE {}

\* The video was cached when the sync began and the walk of the sync found it
\* not modified since its cached scan time.
CachedUnmodified(v) ==
    /\ foundMediaPath(current, v)
    /\ ~ (findMediaPath(current, v).ScanTime < dirMap[v])

\* C39: a background sync over a video that is already cached and was not
\* modified since its cached scan time preserves the cached embedded tracks
\* of the video: after the sync has cached its scan result again,
\* GetCachedMediaFiles returns the same embedded tracks as before the sync.
C39_EmbeddedTracksPreserved ==
    [][(spc = "cache" /\ spc' = "idle") =>
          \A v \in Videos :
              CachedUnmodified(v) =>
                  EmbeddedOf(GetCachedMediaFiles(videoRows', subtitleRows'), v)
                      = EmbeddedOf(current, v)]_vars

====
